---- MODULE Spec2Model ----
(***************************************************************************)
(* Kiro/CodeWhisperer provider adapter (src/src/claude/claude-kiro.js).    *)
(*                                                                         *)
(* The specifications of this module:                                      *)
(*   SpecBuild  buildClaudeResponse: the response builder, applied to a    *)
(*              parsed response (text, tool calls) in both of its forms.   *)
(*   SpecShape  buildCodewhispererRequest: the request shaper, applied to  *)
(*              an ingress request (messages, system prompt, tools).       *)
(*   Spec       callApi / initializeAuth / generateContent: concurrent     *)
(*              requests sharing one adapter instance, the credential      *)
(*              file, the refresh endpoint and the upstream endpoint.      *)
(*   Spec1      the same machine with a single request.                    *)
(*   Spec1Fair  Spec1 with every pending await answered in the end.        *)
(*   SpecClean  cleanSystemTags: the sanitizer, applied to a text and to   *)
(*              its own result.                                            *)
(*   SpecStream one generateContentStream request, up to its last event.   *)
(*   SpecAuth   one request on a fresh adapter, over the combinations of   *)
(*              credential sources.                                        *)
(*   SpecParse  _processApiResponse: the response parser, applied to a raw *)
(*              response buffer, its result handed to the builder.         *)
(*                                                                         *)
(* Text is a sequence of symbols: one-character strings, and the strings   *)
(* the sanitizer's patterns match (the opening tag as its two halves, the  *)
(* closing tag and the interruption marker as one symbol each). For the   *)
(* response parser the symbols are the marker "[Called", the marker        *)
(* "with args:", the punctuation of JSON, white space and words.           *)
(***************************************************************************)
EXTENDS Integers, Sequences, FiniteSets, TLC

VARIABLES
    \* ---- response builder (SpecBuild)
    content,        \* buildClaudeResponse's content argument (responseText)
    toolCalls,      \* buildClaudeResponse's toolCalls argument
    events,         \* the array returned for isStream = true
    message,        \* the object returned for isStream = false
    yielded,        \* how many events generateContentStream has yielded
    raw,            \* the upstream's answer handed to _processApiResponse
    parseResult,    \* "": not parsed yet, "returned"
    \* ---- request shaper (SpecShape)
    messages,       \* buildCodewhispererRequest's messages argument
    tools,          \* its tools argument
    inSystemPrompt, \* its inSystemPrompt argument (<<>>: null)
    disableTools,   \* this.config.KIRO_DISABLE_TOOLS
    assembled,      \* the request before the size check
    request,        \* the request returned
    stages,         \* the size stages that ran, each with the request after it
    shapeResult,    \* "": not called yet, "returned", "thrown"
    tagText,        \* a text handed to cleanSystemTags
    sanitized,      \* the results of applying cleanSystemTags to it, again and again
    \* ---- transport and credentials (Spec, Spec1)
    now,            \* the wall clock (Date.now()), in milliseconds
    isInitialized,  \* this.isInitialized
    axiosInstance,  \* this.axiosInstance: TRUE once axios.create has run, FALSE while null
    base64Creds,    \* this.base64Creds
    accessToken,    \* this.accessToken   (0: undefined)
    refreshToken,   \* this.refreshToken  (0: undefined)
    profileArn,     \* this.profileArn    (0: undefined)
    authMethod,     \* this.authMethod    ("": undefined)
    clientId,       \* this.clientId      (0: undefined)
    clientSecret,   \* this.clientSecret  (0: undefined)
    region,         \* this.region        ("": undefined)
    expiresAt,      \* this.expiresAt     (NoExpiry: undefined)
    credFile,       \* the primary credential file (NoFile: it does not exist)
    issued,         \* the refresh endpoint: the last token generation it has issued
    req,            \* per request: its position and the locals of its call frames
    obs,            \* per request: what it has sent and received so far
    siblings        \* the other *.json files of the credential directory, in readdir order

buildVars == <<content, toolCalls, events, message, yielded, raw, parseResult>>
netVars == <<now, isInitialized, axiosInstance, base64Creds, accessToken, refreshToken,
             profileArn, expiresAt, authMethod, clientId, clientSecret, region, credFile,
             issued, req, obs, siblings>>
shapeVars == <<messages, tools, inSystemPrompt, disableTools, assembled, request,
               stages, shapeResult, tagText, sanitized>>
vars == <<buildVars, shapeVars, netVars>>

(***************************************************************************)
(* Helpers on sequences.                                                   *)
(***************************************************************************)
RECURSIVE SeqSum(_)
SeqSum(s) == IF s = <<>> THEN 0 ELSE Head(s) + SeqSum(Tail(s))

RECURSIVE Flatten(_)
Flatten(ss) ==
    IF ss = <<>> THEN <<>>
    ELSE IF Len(ss) = 1 THEN ss[1]
    ELSE LET half == Len(ss) \div 2
         IN  Flatten(SubSeq(ss, 1, half)) \o Flatten(SubSeq(ss, half + 1, Len(ss)))

SeqsUpTo(S, n) == UNION {[1..k -> S] : k \in 0..n}

(***************************************************************************)
(*                        R E Q U E S T   S H A P E R                      *)
(*                                                                         *)
(* buildCodewhispererRequest(messages, model, tools, inSystemPrompt).      *)
(* A message is {role, content}; content is a string or an array of parts  *)
(* (text, tool_result, tool_use, image).  Lengths are counted in symbols.  *)
(***************************************************************************)

\* this.config.KIRO_MAX_TOOLS / KIRO_MAX_HISTORY / KIRO_MAX_REQUEST_SIZE /
\* KIRO_MAX_MESSAGE_LENGTH: the configured caps, set small here so that
\* short inputs reach them.
KIRO_MAX_TOOLS == 2
KIRO_MAX_HISTORY == 6
KIRO_MAX_REQUEST_SIZE == 26
KIRO_MAX_MESSAGE_LENGTH == 3

\* const shorterMaxLen = 2000, in the units of the texts used here.
shorterMaxLen == 2

\* Stage 1 shifts while history.length > 5; stage 4 keeps slice(-3).
HistoryFloor == 5
EmergencyKeep == 3

\* Non-core tools with descLength > 1000 are skipped; descriptions are cut
\* to substring(0, 300).  A description is modelled by its length.
ToolDescSkip == 1000
ToolDescKeep == 300

coreTools ==
    {"Read", "Write", "Edit", "Glob", "Grep", "Bash", "WebFetch", "WebSearch",
     "AskUserQuestion"}

\* The opening tag is the two symbols ReminderOpen; the closing tag and the
\* interruption marker are one symbol each.
ReminderOpen == <<"<system-", "reminder>">>
ReminderClose == "</system-reminder>"
Interrupted == "[Request interrupted by user]"

\* The markers appended by the three truncations (the line break and the
\* bracketed note), one symbol each.
ContentCut == "\n...[content truncated]"
ToolResultCut == "\n...[tool result truncated]"
HistoryCut == "\n...[truncated]"

ContinueText == <<"Continue">>

Min(a, b) == IF a <= b THEN a ELSE b

\* String.prototype.trim
RECURSIVE TrimLeft(_)
TrimLeft(s) == IF s # <<>> /\ Head(s) \in {" ", "\n"} THEN TrimLeft(Tail(s)) ELSE s

RECURSIVE TrimRight(_)
TrimRight(s) ==
    IF s # <<>> /\ s[Len(s)] \in {" ", "\n"}
    THEN TrimRight(SubSeq(s, 1, Len(s) - 1))
    ELSE s

Trim(s) == TrimRight(TrimLeft(s))

\* The first position >= from where the opening tag starts, 0 if none.
FirstOpen(s, from) ==
    LET at == {i \in from..(Len(s) - 1) :
                  s[i] = ReminderOpen[1] /\ s[i + 1] = ReminderOpen[2]}
    IN  IF at = {} THEN 0 ELSE CHOOSE i \in at : \A k \in at : i <= k

\* The first position >= from of the closing tag, 0 if none.
FirstClose(s, from) ==
    LET at == {i \in from..Len(s) : s[i] = ReminderClose}
    IN  IF at = {} THEN 0 ELSE CHOOSE i \in at : \A k \in at : i <= k

\* text.replace(/<system-reminder>[\s\S]*?<\/system-reminder>/gi, ''): one
\* pass from left to right, each match running to the nearest closing tag.
RECURSIVE RemoveReminders(_)
RemoveReminders(s) ==
    LET i == FirstOpen(s, 1)
        j == IF i = 0 THEN 0 ELSE FirstClose(s, i + 2)
    IN  IF j = 0 THEN s
        ELSE SubSeq(s, 1, i - 1) \o RemoveReminders(SubSeq(s, j + 1, Len(s)))

\* .replace(/\[Request interrupted by user\]/gi, '')
RemoveInterrupted(s) == SelectSeq(s, LAMBDA c : c # Interrupted)

cleanSystemTags(text) ==
    IF text = <<>> THEN text
    ELSE Trim(RemoveInterrupted(RemoveReminders(text)))

\* cleaned.substring(0, maxLen) + marker, when cleaned.length > maxLen
CutTo(text, maxLen, marker) ==
    IF Len(text) > maxLen THEN SubSeq(text, 1, maxLen) \o <<marker>> ELSE text

\* ---- ingress data
Part(type, text, id, name) == [type |-> type, text |-> text, id |-> id, name |-> name]
TextPart(text) == Part("text", text, "", "")
ToolResultPart(id, text) == Part("tool_result", text, id, "")
ToolUsePart(id, name) == Part("tool_use", <<>>, id, name)
ImagePart == Part("image", <<>>, "", "")

StringContent(text) == [isArray |-> FALSE, text |-> text, parts |-> <<>>]
ArrayContent(parts) == [isArray |-> TRUE, text |-> <<>>, parts |-> parts]
Message(role, c) == [role |-> role, content |-> c]

PartsOfType(parts, type) == SelectSeq(parts, LAMBDA p : p.type = type)

\* getContentText, for a message
getContentText(msg) ==
    IF msg.content.isArray
    THEN LET ps == SelectSeq(msg.content.parts,
                             LAMBDA p : p.type = "text" /\ p.text # <<>>)
         IN  Flatten([i \in 1..Len(ps) |-> ps[i].text])
    ELSE msg.content.text

\* truncateContent
truncateContent(c, maxLen) ==
    IF ~c.isArray
    THEN IF c.text = <<>> THEN c
         ELSE StringContent(CutTo(cleanSystemTags(c.text), maxLen, ContentCut))
    ELSE ArrayContent(
            [i \in 1..Len(c.parts) |->
                LET p == c.parts[i]
                IN  IF p.type = "text" /\ p.text # <<>>
                    THEN [p EXCEPT !.text = CutTo(cleanSystemTags(p.text), maxLen, ContentCut)]
                    ELSE p])

\* processedMessages.slice(-maxHistory), when there are more than maxHistory
LimitHistory(msgs) ==
    IF Len(msgs) > KIRO_MAX_HISTORY
    THEN SubSeq(msgs, Len(msgs) - KIRO_MAX_HISTORY + 1, Len(msgs))
    ELSE msgs

ProcessedMessages(msgs) ==
    LET kept == LimitHistory(msgs)
    IN  [i \in 1..Len(kept) |->
            [kept[i] EXCEPT !.content = truncateContent(@, KIRO_MAX_MESSAGE_LENGTH)]]

\* ---- tools
Tool(name, descLength) == [name |-> name, description |-> descLength]

\* Variant of FilteredTools: the filter without the cap of maxTools.
FilteredToolsUncapped(tls) ==
    SelectSeq(tls, LAMBDA t : t.name \in coreTools \/ t.description <= ToolDescSkip)

\* tools.filter(core or description <= 1000).slice(0, maxTools)
FilteredTools(tls) ==
    LET kept == SelectSeq(tls, LAMBDA t : t.name \in coreTools
                                          \/ t.description <= ToolDescSkip)
    IN  SubSeq(kept, 1, Min(KIRO_MAX_TOOLS, Len(kept)))

\* toolsContext.tools; the empty list stands for toolsContext = {}
ToolsContextTools(tls, disable) ==
    IF ~disable /\ Len(tls) > 0
    THEN LET ft == FilteredTools(tls)
         IN  [i \in 1..Len(ft) |->
                 Tool(ft[i].name, Min(ft[i].description, ToolDescKeep))]
    ELSE <<>>

\* ---- history
Entry(kind, text, toolResults, toolUses, images) ==
    [kind |-> kind, content |-> text, toolResults |-> toolResults,
     toolUses |-> toolUses, images |-> images]

ToolResultOf(part) ==
    [text |-> CutTo(cleanSystemTags(part.text), KIRO_MAX_MESSAGE_LENGTH, ToolResultCut),
     toolUseId |-> part.id]

ToolUseOf(part) == [name |-> part.name, toolUseId |-> part.id]

ToolResultsOf(parts) ==
    LET ps == PartsOfType(parts, "tool_result")
    IN  [i \in 1..Len(ps) |-> ToolResultOf(ps[i])]

ToolUsesOf(parts) ==
    LET ps == PartsOfType(parts, "tool_use")
    IN  [i \in 1..Len(ps) |-> ToolUseOf(ps[i])]

ImagesOf(parts) ==
    LET ps == PartsOfType(parts, "image")
    IN  [i \in 1..Len(ps) |-> "image"]

\* content += cleanSystemTags(part.text), over the text parts
CleanedTextOf(parts) ==
    LET ps == PartsOfType(parts, "text")
    IN  Flatten([i \in 1..Len(ps) |-> cleanSystemTags(ps[i].text)])

\* content += part.text, over the text parts
TextOf(parts) ==
    LET ps == PartsOfType(parts, "text")
    IN  Flatten([i \in 1..Len(ps) |-> ps[i].text])

UserEntry(msg) ==
    IF msg.content.isArray
    THEN Entry("userInputMessage", CleanedTextOf(msg.content.parts),
               ToolResultsOf(msg.content.parts), <<>>, ImagesOf(msg.content.parts))
    ELSE Entry("userInputMessage", cleanSystemTags(getContentText(msg)), <<>>, <<>>, <<>>)

AssistantEntry(msg) ==
    IF msg.content.isArray
    THEN Entry("assistantResponseMessage", TextOf(msg.content.parts), <<>>,
               ToolUsesOf(msg.content.parts), <<>>)
    ELSE Entry("assistantResponseMessage", getContentText(msg), <<>>, <<>>, <<>>)

\* The system prompt entry and startIndex.
SystemHistory(pm, systemPrompt) ==
    IF systemPrompt = <<>> THEN <<>>
    ELSE IF pm[1].role = "user"
    THEN <<Entry("userInputMessage",
                 systemPrompt \o <<"\n", "\n">> \o getContentText(pm[1]),
                 <<>>, <<>>, <<>>)>>
    ELSE <<Entry("userInputMessage", systemPrompt, <<>>, <<>>, <<>>)>>

StartIndex(pm, systemPrompt) ==
    IF systemPrompt # <<>> /\ pm[1].role = "user" THEN 1 ELSE 0

\* for (i = startIndex; i < processedMessages.length - 1; i++): messages of
\* another role than user and assistant add nothing.
LoopHistory(pm, startIndex) ==
    LET mid == SelectSeq(SubSeq(pm, startIndex + 1, Len(pm) - 1),
                         LAMBDA m : m.role \in {"user", "assistant"})
    IN  [i \in 1..Len(mid) |->
            IF mid[i].role = "user" THEN UserEntry(mid[i]) ELSE AssistantEntry(mid[i])]

\* ---- current message
CurrentContent(msg) ==
    IF msg.content.isArray THEN CleanedTextOf(msg.content.parts) ELSE getContentText(msg)

CurrentToolResults(msg) ==
    IF msg.content.isArray THEN ToolResultsOf(msg.content.parts) ELSE <<>>

CurrentToolUses(msg) ==
    IF msg.content.isArray THEN ToolUsesOf(msg.content.parts) ELSE <<>>

CurrentImages(msg) ==
    IF msg.content.isArray THEN ImagesOf(msg.content.parts) ELSE <<>>

\* if (!currentContent && no tool results && no tool uses) currentContent = 'Continue'
ContentOrContinue(msg) ==
    IF CurrentContent(msg) = <<>> /\ CurrentToolResults(msg) = <<>>
       /\ CurrentToolUses(msg) = <<>>
    THEN ContinueText
    ELSE CurrentContent(msg)

\* currentMessage.userInputMessage; present = FALSE is currentMessage = {}.
\* hasContext: the key userInputMessageContext exists; hasToolResults,
\* hasTools, hasImages: the keys toolResults, tools, images exist;
\* toolsNull: the value of tools is null.
UserInputMessage(text, toolResults, tls, images) ==
    [present |-> TRUE, content |-> text,
     hasContext |-> toolResults # <<>> \/ tls # <<>>,
     hasToolResults |-> toolResults # <<>>, toolResults |-> toolResults,
     hasTools |-> tls # <<>>, tools |-> tls, toolsNull |-> FALSE,
     hasImages |-> images # <<>>, images |-> images]

NoUserInputMessage ==
    [present |-> FALSE, content |-> <<>>, hasContext |-> FALSE,
     hasToolResults |-> FALSE, toolResults |-> <<>>,
     hasTools |-> FALSE, tools |-> <<>>, toolsNull |-> FALSE,
     hasImages |-> FALSE, images |-> <<>>]

CurrentMessage(msg, tls) ==
    IF msg.role = "user"
    THEN UserInputMessage(ContentOrContinue(msg), CurrentToolResults(msg), tls,
                          CurrentImages(msg))
    ELSE IF msg.role = "assistant"
    THEN UserInputMessage(ContinueText, <<>>, tls, <<>>)
    ELSE NoUserInputMessage

\* The last message, when its role is assistant, is pushed onto history.
LastAssistantHistory(msg) ==
    IF msg.role = "assistant"
    THEN <<Entry("assistantResponseMessage", ContentOrContinue(msg), <<>>,
                 CurrentToolUses(msg), <<>>)>>
    ELSE <<>>

Request(history, current, withProfileArn) ==
    [history |-> history, current |-> current, profileArn |-> withProfileArn]

\* The request as it stands at line 810, before the size check.
AssembleRequest(msgs, tls, systemPrompt, disable, auth) ==
    LET pm == ProcessedMessages(msgs)
        last == pm[Len(pm)]
        toolsContext == ToolsContextTools(tls, disable)
    IN  Request(SystemHistory(pm, systemPrompt)
                    \o LoopHistory(pm, StartIndex(pm, systemPrompt))
                    \o LastAssistantHistory(last),
                CurrentMessage(last, toolsContext),
                auth = "social")

\* ---- size enforcement
\* JSON.stringify(request).length, in the units of the texts: every object
\* and every list element costs its punctuation, every text its length.
ToolResultsLength(trs) == SeqSum([i \in 1..Len(trs) |-> 1 + Len(trs[i].text)])

EntryLength(e) ==
    2 + Len(e.content) + ToolResultsLength(e.toolResults) + Len(e.toolUses)
      + Len(e.images)

CurrentLength(c) ==
    IF ~c.present THEN 0
    ELSE 2 + Len(c.content)
           + (IF c.hasContext THEN 1 ELSE 0)
           + ToolResultsLength(c.toolResults)
           + (IF c.toolsNull THEN 1 ELSE 2 * Len(c.tools))
           + Len(c.images)

JsonLength(r) ==
    4 + SeqSum([i \in 1..Len(r.history) |-> EntryLength(r.history[i])])
      + CurrentLength(r.current)
      + (IF r.profileArn THEN 1 ELSE 0)

TooLarge(r) == JsonLength(r) > KIRO_MAX_REQUEST_SIZE

\* Variant of ShiftHistory: the loop goes on down to the emergency length.
RECURSIVE ShiftHistoryGreedy(_)
ShiftHistoryGreedy(r) ==
    IF Len(r.history) > EmergencyKeep /\ TooLarge(r)
    THEN ShiftHistoryGreedy([r EXCEPT !.history = Tail(@)])
    ELSE r

\* Stage 1: while (history.length > 5 && too large) history.shift()
RECURSIVE ShiftHistory(_)
ShiftHistory(r) ==
    IF Len(r.history) > HistoryFloor /\ TooLarge(r)
    THEN ShiftHistory([r EXCEPT !.history = Tail(@)])
    ELSE r

\* Stage 2: history contents longer than shorterMaxLen are cut
ShortenHistory(r) ==
    [r EXCEPT !.history =
        [i \in 1..Len(@) |-> [@[i] EXCEPT !.content = CutTo(@, shorterMaxLen, HistoryCut)]]]

\* Stage 3: userInputMessageContext.tools = null
HasTools(r) == r.current.present /\ r.current.hasTools /\ ~r.current.toolsNull

\* Variant of RemoveTools: the tool definitions stay.
RemoveToolsKept(r) == r

RemoveTools(r) == [r EXCEPT !.current.tools = <<>>, !.current.toolsNull = TRUE]

\* Stage 4: history.slice(-3)
KeepLastHistory(r) ==
    [r EXCEPT !.history = SubSeq(@, Len(@) - EmergencyKeep + 1, Len(@))]

\* One line of the log of the size enforcement: a stage that ran, and the
\* request as it stood after it.
Stage(name, r) == [stage |-> name, request |-> r]

\* The four stages in turn; the result and the stages that ran.
EnforceSize(r0) ==
    LET over == TooLarge(r0)
        do1 == over /\ Len(r0.history) > HistoryFloor
        r1 == IF do1 THEN ShiftHistory(r0) ELSE r0
        do2 == over /\ TooLarge(r1)
        r2 == IF do2 THEN ShortenHistory(r1) ELSE r1
        do3 == over /\ TooLarge(r2) /\ HasTools(r2)
        r3 == IF do3 THEN RemoveTools(r2) ELSE r2
        do4 == over /\ TooLarge(r3) /\ Len(r3.history) > EmergencyKeep
        r4 == IF do4 THEN KeepLastHistory(r3) ELSE r3
    IN  [request |-> r4,
         stages |-> (IF do1 THEN <<Stage("shift", r1)>> ELSE <<>>)
                    \o (IF do2 THEN <<Stage("shorten", r2)>> ELSE <<>>)
                    \o (IF do3 THEN <<Stage("tools", r3)>> ELSE <<>>)
                    \o (IF do4 THEN <<Stage("last3", r4)>> ELSE <<>>)]

\* ---- the inputs
LongText == <<"a", "b", "c", "d">>

MessagePool ==
    { Message("user", StringContent(<<"q">>)),
      Message("user", StringContent(<<>>)),
      Message("user", StringContent(LongText \o <<Interrupted>>)),
      Message("user", ArrayContent(<<ToolResultPart("t1", <<"r">>)>>)),
      Message("user", ArrayContent(<<ToolUsePart("t2", "Bash")>>)),
      Message("user", ArrayContent(<<ToolResultPart("t1", LongText),
                                     ToolResultPart("t2", LongText),
                                     TextPart(LongText)>>)),
      Message("user", ArrayContent(<<TextPart(ReminderOpen \o <<"x", ReminderClose>>),
                                     ImagePart>>)),
      Message("user", ArrayContent(<<TextPart(LongText), TextPart(<<"e", "f">>)>>)),
      Message("assistant", StringContent(<<"k">>)),
      Message("assistant", StringContent(<<>>)),
      Message("assistant", ArrayContent(<<TextPart(<<"t">>), ToolUsePart("t1", "Read")>>)),
      Message("system", StringContent(<<"s">>)) }

OtherRole(role) == IF role = "user" THEN "assistant" ELSE "user"

\* n earlier turns of a conversation, alternating from role on.
RECURSIVE Turns(_, _)
Turns(n, role) ==
    IF n = 0 THEN <<>>
    ELSE <<Message(role, StringContent(IF role = "user" THEN LongText ELSE <<"k">>))>>
         \o Turns(n - 1, OtherRole(role))

\* Bounds: the number of earlier turns, and of pool messages after them.
MaxTurns == 5
MaxTail == 2

MessageLists ==
    {Turns(n, role) \o tail :
        n \in 0..MaxTurns, role \in {"user", "assistant"},
        tail \in SeqsUpTo(MessagePool, MaxTail)}

SystemPrompts == { <<>>, <<"S">> }

\* (tools, KIRO_DISABLE_TOOLS)
ToolSetups ==
    { [tools |-> <<>>, disable |-> FALSE],
      [tools |-> <<Tool("Read", 1200)>>, disable |-> FALSE],
      [tools |-> <<Tool("mcp_a", 400), Tool("mcp_b", 0), Tool("Bash", 20)>>, disable |-> FALSE],
      [tools |-> <<Tool("mcp_big", 1001), Tool("Grep", 300)>>, disable |-> FALSE],
      [tools |-> <<Tool("Read", 10), Tool("mcp_a", 400)>>, disable |-> TRUE] }

AuthMethods == {"social", "IdC"}

NoRequest == Request(<<>>, NoUserInputMessage, FALSE)

(***************************************************************************)
(*                        R E S P O N S E   B U I L D E R                  *)
(***************************************************************************)

\* Bound: the longest tool-call list handed to the builder.
MaxCalls == 2

\* Response texts handed to the builder: empty, and two non-empty texts.
Contents == { <<>>, <<"h", "i">>, <<"o", "k", "a", "y", "!">> }

\* Tool calls {id, function: {name, arguments}}; arguments is the argument
\* string, kept as it is (the third one is not valid JSON).
ToolCallPool ==
    { [id |-> "t1", name |-> "Read", arguments |-> <<"{", "\"", "p", "\"", ":", "1", "}">>],
      [id |-> "t2", name |-> "Bash", arguments |-> <<"{", "}">>],
      [id |-> "call_3", name |-> "Read", arguments |-> <<"{", "p", ":">>] }

\* estimateTokens = (text) => Math.ceil((text || '').length / 4)
estimateTokens(text) == (Len(text) + 3) \div 4

\* JSON.stringify of a string: the quotes around it and a backslash before
\* every quote and backslash.
JsonStringify(s) ==
    <<"\"">> \o
    Flatten([i \in 1..Len(s) |->
               IF s[i] \in {"\"", "\\"} THEN <<"\\", s[i]>> ELSE <<s[i]>>]) \o
    <<"\"">>

\* One event of the pseudo-stream. Fields an event type does not carry hold
\* the neutral value (-1, "", <<>>).
Event(type, index, block, id, name, text, stop, tokens) ==
    [type |-> type, index |-> index, block |-> block, id |-> id, name |-> name,
     text |-> text, stop_reason |-> stop, output_tokens |-> tokens]

MessageStart == Event("message_start", -1, "", "", "", <<>>, "", 0)
MessageStop == Event("message_stop", -1, "", "", "", <<>>, "", 0)
MessageDelta(stop, tokens) == Event("message_delta", -1, "", "", "", <<>>, stop, tokens)
BlockStart(index, block, id, name) ==
    Event("content_block_start", index, block, id, name, <<>>, "", 0)
BlockDelta(index, block, text) ==
    Event("content_block_delta", index, block, "", "", text, "", 0)
BlockStop(index) == Event("content_block_stop", index, "", "", "", <<>>, "", 0)

\* The text block always at index 0.
TextBlockEventsAtZero(c, calls) ==
    IF c = <<>> THEN <<>>
    ELSE << BlockStart(0, "text", "", ""),
            BlockDelta(0, "text_delta", c),
            BlockStop(0) >>

\* The three events pushed for the text block (stream branch, `if (content)`).
TextBlockEvents(c, calls) ==
    LET contentBlockIndex == IF Len(calls) > 0 THEN Len(calls) ELSE 0
    IN  IF c = <<>> THEN <<>>
        ELSE << BlockStart(contentBlockIndex, "text", "", ""),
                BlockDelta(contentBlockIndex, "text_delta", c),
                BlockStop(contentBlockIndex) >>

\* The input of a tool_use block: `try { inputObject = tc.function.arguments }`,
\* in both branches. The assignment parses nothing and cannot throw, so the
\* catch, which would wrap the string as { raw_arguments }, is never entered.
InputObject(arguments) == arguments

\* The three events pushed for tool call i (toolCalls.forEach((tc, index) ...));
\* the block index is the call's 0-based position.
ToolBlockEvents(calls, i) ==
    << BlockStart(i - 1, "tool_use", calls[i].id, calls[i].name),
       BlockDelta(i - 1, "input_json_delta", InputObject(calls[i].arguments)),
       BlockStop(i - 1) >>

ToolEvents(calls) == Flatten([i \in 1..Len(calls) |-> ToolBlockEvents(calls, i)])

\* The order in which the stream branch pushes its block events: the text
\* block's events first (`if (content)`), then the tool calls'.
StreamBlocks(c, calls) == TextBlockEvents(c, calls) \o ToolEvents(calls)

\* buildClaudeResponse(content, true, role, model, toolCalls)
BuildStreamResponse(c, calls) ==
    LET textTokens == IF c = <<>> THEN 0 ELSE estimateTokens(c)
        toolTokens == SeqSum([i \in 1..Len(calls) |->
                                estimateTokens(JsonStringify(calls[i].arguments))])
        stopReason == IF Len(calls) > 0 THEN "tool_use" ELSE "end_turn"
    IN  <<MessageStart>> \o StreamBlocks(c, calls) \o
        << MessageDelta(stopReason, textTokens + toolTokens), MessageStop >>

\* One block of the non-streaming message's content array.
ContentBlock(type, id, name, text) ==
    [type |-> type, id |-> id, name |-> name, text |-> text]

\* The content array of the non-streaming branch: the tool_use blocks when
\* there are tool calls, else the text block when the text is non-empty.
MessageContent(c, calls) ==
    IF Len(calls) > 0
    THEN [i \in 1..Len(calls) |->
            ContentBlock("tool_use", calls[i].id, calls[i].name,
                         InputObject(calls[i].arguments))]
    ELSE IF c = <<>> THEN <<>> ELSE <<ContentBlock("text", "", "", c)>>

\* buildClaudeResponse(content, false, role, model, toolCalls)
BuildMessageResponse(c, calls) ==
    [type |-> "message",
     role |-> "assistant",
     stop_reason |-> IF Len(calls) > 0 THEN "tool_use" ELSE "end_turn",
     output_tokens |->
        IF Len(calls) > 0
        THEN SeqSum([i \in 1..Len(calls) |-> estimateTokens(calls[i].arguments)])
        ELSE IF c = <<>> THEN 0 ELSE estimateTokens(c),
     content |-> MessageContent(c, calls)]

\* No message built yet.
NoMessage ==
    [type |-> "none", role |-> "", stop_reason |-> "", output_tokens |-> 0,
     content |-> <<>>]

(***************************************************************************)
(*                      R E S P O N S E   P A R S E R                      *)
(*                                                                         *)
(* parseEventStreamChunk, the bracket tool-call helpers and                *)
(* _processApiResponse. A text is a sequence of symbols: the punctuation   *)
(* marks { } [ ] " \ : , - one by one, the blank " ", the marker "[Called"  *)
(* (it begins with an opening bracket), the marker "with args:", and words  *)
(* (maximal runs of [a-zA-Z0-9_] and other characters without meaning to   *)
(* the parser).                                                            *)
(***************************************************************************)

\* The words of \w+ that occur in the texts, and those that JSON reads as a
\* literal.
Words == {"Read", "Bash", "ok", "p", "a", "b", "c", "command", "ls", "path", "data", "1"}
JsonLiterals == {"1"}

\* White space (\s): the blank and the newline.
Blanks == {" ", "\n"}

\* The first position from i on that holds no white space.
RECURSIVE SkipBlanks(_, _)
SkipBlanks(s, i) ==
    IF i <= Len(s) /\ s[i] \in Blanks THEN SkipBlanks(s, i + 1) ELSE i

\* text.replace(/\s+/g, ' ').trim()
CollapseBlanks(s) ==
    Trim(Flatten([i \in 1..Len(s) |->
                    IF s[i] \notin Blanks THEN <<s[i]>>
                    ELSE IF i > 1 /\ s[i - 1] \in Blanks THEN <<>>
                    ELSE <<" ">>]))

\* JSON.parse as a recogniser: the position after the value that begins at i,
\* 0 when there is none. A string runs to the next quote that no backslash
\* escapes; a backslash escapes a quote or a backslash.
RECURSIVE JsonStringEnd(_, _)
JsonStringEnd(s, j) ==
    IF j > Len(s) THEN 0
    ELSE IF s[j] = "\"" THEN j + 1
    ELSE IF s[j] = "\\"
         THEN IF j + 1 <= Len(s) /\ s[j + 1] \in {"\"", "\\"}
              THEN JsonStringEnd(s, j + 2)
              ELSE 0
    ELSE JsonStringEnd(s, j + 1)

\* The value that begins at i (what = "value"), or the rest of an object after
\* `{` or a comma (what = "members"), or the rest of an array after `[` or a
\* comma (what = "elements"); first: nothing of the object or array has been
\* read, so it may close at once.
RECURSIVE JsonEnd(_, _, _, _)
JsonEnd(s, i, what, first) ==
    IF i > Len(s) THEN 0
    ELSE IF what = "value"
    THEN IF s[i] = "{" THEN JsonEnd(s, SkipBlanks(s, i + 1), "members", TRUE)
         ELSE IF s[i] = "[" THEN JsonEnd(s, SkipBlanks(s, i + 1), "elements", TRUE)
         ELSE IF s[i] = "\"" THEN JsonStringEnd(s, i + 1)
         ELSE IF s[i] \in JsonLiterals THEN i + 1
         ELSE 0
    ELSE IF what = "members"
    THEN IF first /\ s[i] = "}" THEN i + 1
         ELSE IF s[i] # "\"" THEN 0
         ELSE LET k == JsonStringEnd(s, i + 1)
                  c == SkipBlanks(s, k)
                  v == IF k = 0 \/ c > Len(s) \/ s[c] # ":" THEN 0
                       ELSE JsonEnd(s, SkipBlanks(s, c + 1), "value", FALSE)
                  d == SkipBlanks(s, v)
              IN  IF v = 0 \/ d > Len(s) THEN 0
                  ELSE IF s[d] = "," THEN JsonEnd(s, SkipBlanks(s, d + 1), "members", FALSE)
                  ELSE IF s[d] = "}" THEN d + 1
                  ELSE 0
    ELSE IF first /\ s[i] = "]" THEN i + 1
    ELSE LET v == JsonEnd(s, i, "value", FALSE)
             d == SkipBlanks(s, v)
         IN  IF v = 0 \/ d > Len(s) THEN 0
             ELSE IF s[d] = "," THEN JsonEnd(s, SkipBlanks(s, d + 1), "elements", FALSE)
             ELSE IF s[d] = "]" THEN d + 1
             ELSE 0

JsonValueEnd(s, i) == JsonEnd(s, i, "value", FALSE)

\* JSON.parse(s) does not throw.
JsonParses(s) ==
    LET e == JsonValueEnd(s, SkipBlanks(s, 1))
    IN  e # 0 /\ SkipBlanks(s, e) > Len(s)

\* JSON.parse(s) gives an object or an array (typeof 'object', not null).
JsonParsesToObject(s) ==
    JsonParses(s) /\ s[SkipBlanks(s, 1)] \in {"{", "["}

\* JSON.stringify(JSON.parse(s)) for a text that parses: the blanks outside
\* strings go. inString[i] tells whether symbol i lies within a string.
RECURSIVE InStringFrom(_, _, _)
InStringFrom(s, i, inside) ==
    IF i > Len(s) THEN <<>>
    ELSE IF inside /\ s[i] = "\\" /\ i < Len(s)
         THEN <<TRUE, TRUE>> \o InStringFrom(s, i + 2, TRUE)
    ELSE IF s[i] = "\"" THEN <<TRUE>> \o InStringFrom(s, i + 1, ~inside)
    ELSE <<inside>> \o InStringFrom(s, i + 1, inside)

JsonReserialize(s) ==
    LET inString == InStringFrom(s, 1, FALSE)
    IN  Flatten([i \in 1..Len(s) |->
                   IF s[i] \in Blanks /\ ~inString[i] THEN <<>> ELSE <<s[i]>>])

\* findMatchingBracket(text, startPos): the position of the bracket that closes
\* the one at startPos, quotes and backslash escapes respected; 0 for -1.
\* One turn of the loop, at position i; found is the position returned.
ScanBracketStep(st, char, i) ==
    IF st.found # 0 THEN st
    ELSE IF st.escapeNext THEN [st EXCEPT !.escapeNext = FALSE]
    ELSE IF char = "\\" /\ st.inString THEN [st EXCEPT !.escapeNext = TRUE]
    ELSE IF char = "\"" THEN [st EXCEPT !.inString = ~@]
    ELSE IF ~st.inString /\ char \in {"[", "[Called"}
         THEN [st EXCEPT !.bracketCount = @ + 1]
    ELSE IF ~st.inString /\ char = "]"
         THEN IF st.bracketCount = 1 THEN [st EXCEPT !.bracketCount = 0, !.found = i]
              ELSE [st EXCEPT !.bracketCount = @ - 1]
    ELSE st

\* The turns for the positions lo..hi, one after the other.
RECURSIVE ScanBracket(_, _, _, _)
ScanBracket(text, lo, hi, st) ==
    IF lo > hi \/ st.found # 0 THEN st
    ELSE IF lo = hi THEN ScanBracketStep(st, text[lo], lo)
    ELSE LET mid == (lo + hi) \div 2
         IN  ScanBracket(text, mid + 1, hi, ScanBracket(text, lo, mid, st))

findMatchingBracket(text, startPos) ==
    IF startPos > Len(text) \/ text[startPos] \notin {"[", "[Called"} THEN 0
    ELSE ScanBracket(text, startPos + 1, Len(text),
                     [bracketCount |-> 1, inString |-> FALSE, escapeNext |-> FALSE,
                      found |-> 0]).found

\* The three repairs of parseSingleToolCall, each a replace over the whole
\* candidate. A comma before a closing brace or bracket goes:
\* /,\s*([}\]])/g -> '$1'.
RECURSIVE RemoveTrailingCommasFrom(_, _)
RemoveTrailingCommasFrom(s, i) ==
    IF i > Len(s) THEN <<>>
    ELSE LET n == SkipBlanks(s, i + 1)
         IN  IF s[i] = "," /\ n <= Len(s) /\ s[n] \in {"}", "]"}
             THEN <<s[n]>> \o RemoveTrailingCommasFrom(s, n + 1)
             ELSE <<s[i]>> \o RemoveTrailingCommasFrom(s, i + 1)

RemoveTrailingCommas(s) == RemoveTrailingCommasFrom(s, 1)

\* A bare key gets its quotes: /([{,]\s*)([a-zA-Z0-9_]+?)\s*:/g -> '$1"$2":'.
RECURSIVE QuoteBareKeysFrom(_, _)
QuoteBareKeysFrom(s, i) ==
    IF i > Len(s) THEN <<>>
    ELSE LET w == SkipBlanks(s, i + 1)
             c == SkipBlanks(s, w + 1)
         IN  IF s[i] \in {"{", ","} /\ c <= Len(s) /\ s[w] \in Words /\ s[c] = ":"
             THEN SubSeq(s, i, w - 1) \o <<"\"", s[w], "\"", ":">>
                  \o QuoteBareKeysFrom(s, c + 1)
             ELSE <<s[i]>> \o QuoteBareKeysFrom(s, i + 1)

QuoteBareKeys(s) == QuoteBareKeysFrom(s, 1)

\* A bare word as a value gets its quotes, a number too:
\* /:\s*([a-zA-Z0-9_]+)(?=[,\}\]])/g -> ':"$1"'.
RECURSIVE QuoteBareValuesFrom(_, _)
QuoteBareValuesFrom(s, i) ==
    IF i > Len(s) THEN <<>>
    ELSE LET w == SkipBlanks(s, i + 1)
         IN  IF s[i] = ":" /\ w + 1 <= Len(s) /\ s[w] \in Words
                /\ s[w + 1] \in {",", "}", "]"}
             THEN <<":", "\"", s[w], "\"">> \o QuoteBareValuesFrom(s, w + 1)
             ELSE <<s[i]>> \o QuoteBareValuesFrom(s, i + 1)

QuoteBareValues(s) == QuoteBareValuesFrom(s, 1)

RepairJson(jsonCandidate) ==
    QuoteBareValues(QuoteBareKeys(RemoveTrailingCommas(jsonCandidate)))

\* A tool call {id, type: "function", function: {name, arguments}}.
ToolCall(id, name, arguments) == [id |-> id, name |-> name, arguments |-> arguments]

\* No call (null).
NoCall == ToolCall("", "", <<>>)

\* `call_` and the first eight digits of a fresh uuid: the uuids drawn so far
\* are counted.
CallId(n) == "call_" \o ToString(n)

\* parseSingleToolCall(toolCallText), the text beginning with the marker and
\* ending with a closing bracket: the name pattern
\* /\[Called\s+(\w+)\s+with\s+args:/, the candidate between the marker
\* "with args:" and the last bracket, the repairs, JSON.parse, and the
\* arguments JSON.stringify'd. NoCall for null.
parseSingleToolCall(toolCallText, uuid) ==
    LET n == SkipBlanks(toolCallText, 2)
        m == SkipBlanks(toolCallText, n + 1)
        nameMatch == /\ n > 2 /\ m > n + 1 /\ m <= Len(toolCallText)
                     /\ toolCallText[n] \in Words
                     /\ toolCallText[m] = "with args:"
        argsEnd == Len(toolCallText)
        jsonCandidate == Trim(SubSeq(toolCallText, m + 1, argsEnd - 1))
        repairedJson == RepairJson(jsonCandidate)
    IN  IF ~nameMatch \/ argsEnd <= m + 1 THEN NoCall
        ELSE IF ~JsonParsesToObject(repairedJson) THEN NoCall
        ELSE ToolCall(CallId(uuid), toolCallText[n], JsonReserialize(repairedJson))

\* The symbols of a tool name: a word, or words joined by dashes.
NameSymbols(name) ==
    IF name = "get-data" THEN <<"get", "-", "data">> ELSE <<name>>

\* The positions of "[Called" in the text, in order (the indexOf loop).
CallPositions(responseText) ==
    Flatten([i \in 1..Len(responseText) |->
               IF responseText[i] = "[Called" THEN <<i>> ELSE <<>>])

\* text.lastIndexOf(x), 0 for -1.
LastIndexOf(text, x) ==
    LET at == {i \in 1..Len(text) : text[i] = x}
    IN  IF at = {} THEN 0 ELSE CHOOSE i \in at : \A j \in at : j <= i

\* The text of one call within its segment: up to the matching bracket, else up
\* to the last closing bracket of the segment, else none (`continue`).
ToolCallText(segment) ==
    LET bracketEnd == findMatchingBracket(segment, 1)
        lastBracket == LastIndexOf(segment, "]")
    IN  IF bracketEnd # 0 THEN SubSeq(segment, 1, bracketEnd)
        ELSE IF lastBracket # 0 THEN SubSeq(segment, 1, lastBracket)
        ELSE <<>>

\* The loop of parseBracketToolCalls over the positions: each segment runs to
\* the next marker or to the end of the text.
RECURSIVE ParseSegments(_, _, _, _, _)
ParseSegments(responseText, callPositions, i, calls, uuids) ==
    IF i > Len(callPositions) THEN calls
    ELSE LET endSearchLimit == IF i + 1 <= Len(callPositions)
                               THEN callPositions[i + 1] - 1
                               ELSE Len(responseText)
             segment == SubSeq(responseText, callPositions[i], endSearchLimit)
             toolCallText == ToolCallText(segment)
             parsedCall == IF toolCallText = <<>> THEN NoCall
                           ELSE parseSingleToolCall(toolCallText, uuids + Len(calls) + 1)
         IN  ParseSegments(responseText, callPositions, i + 1,
                           IF parsedCall = NoCall THEN calls ELSE Append(calls, parsedCall),
                           uuids)

\* parseBracketToolCalls(responseText), <<>> for null; uuids is the number of
\* uuids drawn before.
parseBracketToolCalls(responseText, uuids) ==
    ParseSegments(responseText, CallPositions(responseText), 1, <<>>, uuids)

\* The end of the text that the removal pattern
\*   \[Called\s+NAME\s+with\s+args:\s*\{[^}]*(?:\{[^}]*\}[^}]*)*\}\]
\* matches from the opening brace on: the first closing brace that a closing
\* bracket follows; a closing brace without one can be passed only when an
\* opening brace lies between it and the closing (or first opening) brace
\* before it. 0 for no match.
BraceMatchStep(text, st, j) ==
    IF st.done THEN st
    ELSE IF text[j] = "}"
         THEN IF j + 1 <= Len(text) /\ text[j + 1] = "]"
              THEN [st EXCEPT !.done = TRUE, !.end = j + 1]
              ELSE IF st.sawOpen THEN [st EXCEPT !.sawOpen = FALSE]
              ELSE [st EXCEPT !.done = TRUE]
    ELSE IF text[j] = "{" THEN [st EXCEPT !.sawOpen = TRUE]
    ELSE st

RECURSIVE BraceMatch(_, _, _, _)
BraceMatch(text, lo, hi, st) ==
    IF lo > hi \/ st.done THEN st
    ELSE IF lo = hi THEN BraceMatchStep(text, st, lo)
    ELSE LET mid == (lo + hi) \div 2
         IN  BraceMatch(text, mid + 1, hi, BraceMatch(text, lo, mid, st))

BraceMatchEnd(text, j) ==
    BraceMatch(text, j, Len(text), [sawOpen |-> FALSE, done |-> FALSE, end |-> 0]).end

\* The end of the pattern's match that begins at i, 0 for none.
PatternMatchEnd(text, i, funcName) ==
    LET name == NameSymbols(funcName)
        n == SkipBlanks(text, i + 1)
        w == n + Len(name)
        m == SkipBlanks(text, w)
        b == SkipBlanks(text, m + 1)
    IN  IF /\ text[i] = "[Called"
           /\ n > i + 1 /\ w - 1 <= Len(text) /\ SubSeq(text, n, w - 1) = name
           /\ m > w /\ m <= Len(text) /\ text[m] = "with args:"
           /\ b <= Len(text) /\ text[b] = "{"
        THEN BraceMatchEnd(text, b + 1)
        ELSE 0

\* text.replace(pattern, '') with the g flag: every match goes, left to right.
\* resume is the position after the last match.
RemovePatternStep(text, st, i, funcName) ==
    IF i < st.resume THEN st
    ELSE LET e == PatternMatchEnd(text, i, funcName)
         IN  IF e # 0 THEN [st EXCEPT !.resume = e + 1]
             ELSE [st EXCEPT !.kept = Append(@, text[i])]

RECURSIVE RemovePatternRange(_, _, _, _, _)
RemovePatternRange(text, lo, hi, st, funcName) ==
    IF lo > hi \/ st.resume > Len(text) THEN st
    ELSE IF lo = hi THEN RemovePatternStep(text, st, lo, funcName)
    ELSE LET mid == (lo + hi) \div 2
         IN  RemovePatternRange(text, mid + 1, hi,
                                RemovePatternRange(text, lo, mid, st, funcName), funcName)

RemovePattern(text, funcName) ==
    RemovePatternRange(text, 1, Len(text), [kept |-> <<>>, resume |-> 1], funcName).kept

\* The clean-up loop: one replace per tool call, by its name, then the white
\* space collapsed and the ends trimmed.
RECURSIVE RemoveEach(_, _)
RemoveEach(text, calls) ==
    IF calls = <<>> THEN text
    ELSE RemoveEach(RemovePattern(text, Head(calls).name), Tail(calls))

RemoveToolCallText(text, calls) == CollapseBlanks(RemoveEach(text, calls))

\* The key of deduplicateToolCalls: `${tc.function.name}-${tc.function.arguments}`.
DedupKey(tc) == NameSymbols(tc.name) \o <<"-">> \o tc.arguments

\* deduplicateToolCalls(toolCalls): a call is kept when its key has not been
\* seen.
RECURSIVE DedupFrom(_, _)
DedupFrom(calls, seen) ==
    IF calls = <<>> THEN <<>>
    ELSE LET key == DedupKey(Head(calls))
         IN  IF key \notin seen
             THEN <<Head(calls)>> \o DedupFrom(Tail(calls), seen \cup {key})
             ELSE DedupFrom(Tail(calls), seen)

deduplicateToolCalls(calls) == DedupFrom(calls, {})

\* One item of the raw response buffer: an event block whose JSON object has
\* been read (the shortest prefix of the block that parses), or text outside
\* the event objects. A field the object lacks is "" / <<>> / FALSE.
EventItem(name, toolUseId, input, stop, c, followupPrompt) ==
    [kind |-> "event", name |-> name, toolUseId |-> toolUseId, input |-> input,
     stop |-> stop, content |-> c, followupPrompt |-> followupPrompt]

ToolUseEvent(name, toolUseId, input, stop) ==
    EventItem(name, toolUseId, input, stop, <<>>, FALSE)

ContentEvent(c) == EventItem("", "", <<>>, FALSE, c, FALSE)

TextItem(text) ==
    [kind |-> "text", name |-> "", toolUseId |-> "", input |-> <<>>, stop |-> FALSE,
     content |-> text, followupPrompt |-> FALSE]

\* decodedContent.replace(/(?<!\\)\\n/g, '\n'): the two characters backslash-n,
\* not preceded by a backslash, become a newline.
DecodeContent(c) ==
    [i \in 1..Len(c) |->
        IF c[i] = "\\n" /\ ~(i > 1 /\ c[i - 1] = "\\") THEN "\n" ELSE c[i]]

\* The state of the event loop: the text, the finished calls, the call being
\* built (NoCall: currentToolCallDict is null).
RECURSIVE EventLoop(_, _, _, _)
EventLoop(items, fullContent, calls, currentToolCallDict) ==
    IF items = <<>>
    THEN [fullContent |-> fullContent,
          toolCalls |-> IF currentToolCallDict # NoCall
                        THEN Append(calls, currentToolCallDict)
                        ELSE calls]
    ELSE LET eventData == Head(items)
         IN  IF eventData.kind # "event"
             THEN EventLoop(Tail(items), fullContent, calls, currentToolCallDict)
             ELSE IF eventData.name # "" /\ eventData.toolUseId # ""
             THEN LET opened == IF currentToolCallDict = NoCall
                                THEN ToolCall(eventData.toolUseId, eventData.name, <<>>)
                                ELSE currentToolCallDict
                      fed == [opened EXCEPT !.arguments = @ \o eventData.input]
                      stopped == IF JsonParses(fed.arguments)
                                 THEN [fed EXCEPT !.arguments = JsonReserialize(@)]
                                 ELSE fed
                  IN  IF eventData.stop
                      THEN EventLoop(Tail(items), fullContent, Append(calls, stopped), NoCall)
                      ELSE EventLoop(Tail(items), fullContent, calls, fed)
             ELSE IF ~eventData.followupPrompt /\ eventData.content # <<>>
             THEN EventLoop(Tail(items), fullContent \o DecodeContent(eventData.content),
                            calls, currentToolCallDict)
             ELSE EventLoop(Tail(items), fullContent, calls, currentToolCallDict)

\* parseEventStreamChunk(rawData): the event loop, the bracket calls of the
\* text and their removal, the deduplication. uuids counts the bracket calls
\* that were given an id.
ChunkResult(fullContent, structured, bracketToolCalls) ==
    [content |-> IF bracketToolCalls # <<>>
                 THEN RemoveToolCallText(fullContent, bracketToolCalls)
                 ELSE fullContent,
     toolCalls |-> deduplicateToolCalls(structured \o bracketToolCalls),
     uuids |-> Len(bracketToolCalls)]

AfterEventLoop(loop) ==
    ChunkResult(loop.fullContent, loop.toolCalls, parseBracketToolCalls(loop.fullContent, 0))

parseEventStreamChunk(rawData) == AfterEventLoop(EventLoop(rawData, <<>>, <<>>, NoCall))

\* One field of an event object as it stands in the buffer.
JsonField(key, value) == <<"\"", key, "\"", ":">> \o value

RECURSIVE JoinFields(_)
JoinFields(fields) ==
    IF fields = <<>> THEN <<>>
    ELSE IF Len(fields) = 1 THEN Head(fields)
    ELSE Head(fields) \o <<",">> \o JoinFields(Tail(fields))

\* The text of an item in the buffer (response.data as a string): the event
\* objects are JSON, their strings escaped.
ItemText(item) ==
    IF item.kind = "text" THEN item.content
    ELSE <<"event", "{">> \o
         JoinFields(
            (IF item.name # "" THEN <<JsonField("name", JsonStringify(NameSymbols(item.name)))>>
             ELSE <<>>) \o
            (IF item.toolUseId # ""
             THEN <<JsonField("toolUseId", JsonStringify(<<item.toolUseId>>))>> ELSE <<>>) \o
            (IF item.input # <<>> THEN <<JsonField("input", JsonStringify(item.input))>>
             ELSE <<>>) \o
            (IF item.stop THEN <<JsonField("stop", <<"true">>)>> ELSE <<>>) \o
            (IF item.content # <<>> THEN <<JsonField("content", JsonStringify(item.content))>>
             ELSE <<>>) \o
            (IF item.followupPrompt THEN <<JsonField("followupPrompt", <<"true">>)>>
             ELSE <<>>)) \o
         <<"}">>

RawResponseText(rawData) == Flatten([i \in 1..Len(rawData) |-> ItemText(rawData[i])])

\* _processApiResponse(response): the calls of parseEventStreamChunk, then the
\* bracket calls of the raw text, deduplicated; the text cleaned of the calls'
\* bracket form when there is a call.
CleanedResponse(fullResponseText, uniqueToolCalls) ==
    [responseText |-> IF Len(uniqueToolCalls) > 0
                      THEN RemoveToolCallText(fullResponseText, uniqueToolCalls)
                      ELSE fullResponseText,
     toolCalls |-> uniqueToolCalls]

\* All the calls collected: those of parseEventStreamChunk, then the bracket
\* calls of the raw text.
AllToolCalls(parsedFromEvents, rawResponseText) ==
    parsedFromEvents.toolCalls
        \o parseBracketToolCalls(rawResponseText, parsedFromEvents.uuids)

AfterEventParsing(parsedFromEvents, rawResponseText) ==
    CleanedResponse(parsedFromEvents.content,
                    deduplicateToolCalls(AllToolCalls(parsedFromEvents, rawResponseText)))

_processApiResponse(rawData) ==
    AfterEventParsing(parseEventStreamChunk(rawData), RawResponseText(rawData))

\* Bound: the longest raw response buffer, in items.
MaxItems == 3

\* The items of a raw response buffer. Structured tool-use events: the three
\* events of a call whose input comes in two chunks, the later events
\* carrying the toolUseId and no name; a closing event that repeats the name; a
\* complete call whose arguments are not JSON; two complete calls whose names
\* and arguments give the same `name-arguments` text. Content events: text with
\* a bracket call; a call with objects nested three deep; a call with a closing
\* brace inside a string; a call whose arguments cannot be repaired; text with
\* a backslash-n; a follow-up prompt. Text outside the event objects: a bracket
\* call with a bare key.
CalledRead == <<"[Called", " ", "Read", " ", "with args:", " ">>
CalledBash == <<"[Called", " ", "Bash", " ", "with args:", " ">>

RawItems ==
    { ToolUseEvent("Read", "t1", <<"{", "\"", "path", "\"", ":">>, FALSE),
      ToolUseEvent("", "t1", <<"\"", "/tmp", "\"", "}">>, FALSE),
      ToolUseEvent("", "t1", <<>>, TRUE),
      ToolUseEvent("Read", "t1", <<"\"", "/tmp", "\"", "}">>, TRUE),
      ToolUseEvent("Read", "t3", <<"{", "p", ":">>, TRUE),
      ToolUseEvent("get-data", "t4", <<"{", "}">>, TRUE),
      ToolUseEvent("get", "t5", <<"data", "-", "{", "}">>, TRUE),
      ContentEvent(<<"ok", " ">> \o CalledRead \o <<"{", "}", "]">>),
      ContentEvent(CalledRead \o <<"{", "\"", "a", "\"", ":", "{", "\"", "b", "\"", ":",
                                   "{", "\"", "c", "\"", ":", "1", "}", "}", "}", "]">>),
      ContentEvent(CalledBash \o <<"{", "\"", "p", "\"", ":", "\"", "}", "\"", "}", "]">>),
      ContentEvent(CalledRead \o <<"{", "p", ":", "}", "]">>),
      ContentEvent(<<"ok", "\\n", "ok">>),
      EventItem("", "", <<>>, FALSE, <<"ok">>, TRUE),
      TextItem(<<" ">> \o CalledBash \o
               <<"{", "command", ":", " ", "\"", "ls", "\"", "}", "]">>) }

\* The transport variables, idle outside Spec, Spec1 and SpecAuth (this.authMethod
\* is also read by the request shaper, and set by each initial state).
NetIdle ==
    /\ now = 0
    /\ isInitialized = FALSE
    /\ axiosInstance = FALSE
    /\ base64Creds = 0
    /\ accessToken = 0
    /\ refreshToken = 0
    /\ profileArn = 0
    /\ expiresAt = 0
    /\ clientId = 0
    /\ clientSecret = 0
    /\ region = ""
    /\ credFile = 0
    /\ issued = 0
    /\ req = <<>>
    /\ obs = <<>>
    /\ siblings = <<>>

\* The build variables, idle outside SpecBuild.
BuildIdle ==
    /\ content = <<>>
    /\ toolCalls = <<>>
    /\ events = <<>>
    /\ message = NoMessage
    /\ yielded = 0
    /\ raw = <<>>
    /\ parseResult = ""

\* The shaper variables, idle outside SpecShape.
ShapeIdle ==
    /\ messages = <<>> /\ tools = <<>> /\ disableTools = FALSE
    /\ inSystemPrompt = <<>>
    /\ assembled = NoRequest /\ request = NoRequest /\ stages = <<>>
    /\ shapeResult = ""
    /\ tagText = <<>> /\ sanitized = <<>>

InitBuild ==
    /\ NetIdle
    /\ authMethod = ""
    /\ ShapeIdle
    /\ content \in Contents
    /\ toolCalls \in SeqsUpTo(ToolCallPool, MaxCalls)
    /\ events = <<>>
    /\ message = NoMessage
    /\ yielded = 0
    /\ raw = <<>>
    /\ parseResult = ""

\* generateContentStream's call: buildClaudeResponse(responseText, true, ...)
BuildStream ==
    /\ events = <<>>
    /\ events' = BuildStreamResponse(content, toolCalls)
    /\ UNCHANGED <<content, toolCalls, message, yielded, raw, parseResult, shapeVars, netVars>>

\* generateContent's call: buildClaudeResponse(responseText, false, ...)
BuildMessage ==
    /\ message = NoMessage
    /\ message' = BuildMessageResponse(content, toolCalls)
    /\ UNCHANGED <<content, toolCalls, events, yielded, raw, parseResult, shapeVars, netVars>>

NextBuild == BuildStream \/ BuildMessage

SpecBuild == InitBuild /\ [][NextBuild]_vars

(***************************************************************************)
(* generateContent from the upstream's answer on: _processApiResponse      *)
(* parses the raw buffer, then buildClaudeResponse builds the message or   *)
(* the pseudo-stream from the text and the calls.                          *)
(***************************************************************************)
InitParse ==
    /\ NetIdle
    /\ authMethod = ""
    /\ ShapeIdle
    /\ raw \in SeqsUpTo(RawItems, MaxItems)
    /\ content = <<>>
    /\ toolCalls = <<>>
    /\ events = <<>>
    /\ message = NoMessage
    /\ yielded = 0
    /\ parseResult = ""

\* generateContent's `this._processApiResponse(response)`; neither it nor the
\* functions it calls throw (every JSON.parse is inside a try), so it returns.
ProcessApiResponse ==
    /\ parseResult = ""
    /\ \E result \in {_processApiResponse(raw)} :
           /\ content' = result.responseText
           /\ toolCalls' = result.toolCalls
    /\ parseResult' = "returned"
    /\ UNCHANGED <<events, message, yielded, raw, shapeVars, netVars>>

NextParse ==
    \/ ProcessApiResponse
    \/ parseResult = "returned" /\ BuildStream
    \/ parseResult = "returned" /\ BuildMessage

SpecParse == InitParse /\ [][NextParse]_vars

(***************************************************************************)
(* The request shaper applied to an ingress request.                       *)
(***************************************************************************)
InitShape ==
    /\ NetIdle
    /\ BuildIdle
    /\ messages \in MessageLists
    /\ inSystemPrompt \in SystemPrompts
    /\ \E setup \in ToolSetups : tools = setup.tools /\ disableTools = setup.disable
    /\ authMethod \in AuthMethods
    /\ assembled = NoRequest /\ request = NoRequest /\ stages = <<>>
    /\ shapeResult = ""
    /\ tagText = <<>> /\ sanitized = <<>>

\* buildCodewhispererRequest on the inputs: it throws 'No user messages
\* found' on an empty list, and returns the request otherwise.
BuildCodewhispererRequest ==
    /\ shapeResult = ""
    /\ IF Len(messages) = 0
       THEN /\ shapeResult' = "thrown"
            /\ UNCHANGED <<assembled, request, stages>>
       ELSE LET r0 == AssembleRequest(messages, tools, inSystemPrompt, disableTools,
                                      authMethod)
                out == EnforceSize(r0)
            IN  /\ assembled' = r0
                /\ request' = out.request
                /\ stages' = out.stages
                /\ shapeResult' = "returned"
    /\ UNCHANGED <<messages, tools, disableTools, inSystemPrompt, tagText, sanitized, buildVars,
                   netVars>>

NextShape == BuildCodewhispererRequest

SpecShape == InitShape /\ [][NextShape]_vars

(***************************************************************************)
(* The sanitizer applied to a text, and to its own result.                 *)
(***************************************************************************)

\* Bound: the longest text handed to the sanitizer.
MaxTextLen == 4

\* The symbols of the texts: the two halves of the opening tag, the closing
\* tag, the interruption marker, a letter and a blank.
TextSymbols ==
    {ReminderOpen[1], ReminderOpen[2], ReminderClose, Interrupted, "a", " "}

InitClean ==
    /\ NetIdle
    /\ authMethod = ""
    /\ BuildIdle
    /\ messages = <<>> /\ tools = <<>> /\ disableTools = FALSE
    /\ inSystemPrompt = <<>>
    /\ assembled = NoRequest /\ request = NoRequest /\ stages = <<>>
    /\ shapeResult = ""
    /\ tagText \in SeqsUpTo(TextSymbols, MaxTextLen)
    /\ sanitized = <<>>

\* cleanSystemTags(text), then cleanSystemTags of the result.
CleanSystemTags ==
    /\ Len(sanitized) < 2
    /\ sanitized' = Append(sanitized,
                           cleanSystemTags(IF sanitized = <<>> THEN tagText
                                           ELSE sanitized[Len(sanitized)]))
    /\ UNCHANGED <<messages, tools, disableTools, inSystemPrompt, assembled, request, stages,
                   shapeResult, tagText, buildVars, netVars>>

NextClean == CleanSystemTags

SpecClean == InitClean /\ [][NextClean]_vars


(***************************************************************************)
(*            T R A N S P O R T   A N D   C R E D E N T I A L S            *)
(*                                                                         *)
(* Each request runs generateContent / generateContentStream on the one    *)
(* adapter instance. A request's code runs without interruption from one   *)
(* await to the next; every action below is one such stretch, and `pc` is  *)
(* the await the request is suspended at:                                  *)
(*   idle          generateContent not yet called                          *)
(*   auth_read     initializeAuth: await loadCredentialsFromFile(target)   *)
(*   auth_dir      initializeAuth: await fs.readdir(dirPath)               *)
(*   refresh_wait  initializeAuth: await axiosInstance.post(refreshUrl)    *)
(*   save_read     saveCredentialsToFile: await fs.readFile                *)
(*   save_write    saveCredentialsToFile: await fs.writeFile               *)
(*   init_mac      initialize: await getMacAddressSha256()                 *)
(*   near_check    generateContent: await this.initialize() has returned   *)
(*   call_dbg      callApi: await fs.writeFile(debugPath)                  *)
(*   post_wait     callApi: await axiosInstance.post(requestUrl)           *)
(*   sleep         callApi: await new Promise(setTimeout(delay))           *)
(*   done, failed  generateContent has returned / thrown                   *)
(* Tokens are numbered by generation: 1 is the token the credential        *)
(* sources hold at start, g + 1 the one the refresh endpoint issues after  *)
(* g; 0 stands for undefined. expiresAt carries the generation it was      *)
(* computed for beside its time.                                           *)
(***************************************************************************)

\* The concurrent requests on the one adapter instance.
Reqs == {1, 2}

\* this.config.REQUEST_MAX_RETRIES (a configuration value; the default is 3)
REQUEST_MAX_RETRIES == 2
\* this.config.REQUEST_BASE_DELAY || 1000
REQUEST_BASE_DELAY == 1000
\* this.config.CRON_NEAR_MINUTES || 10
CRON_NEAR_MINUTES == 10

\* Bounds of the environment: the clock advances MaxTicks times by TickMs; the
\* refresh endpoint issues tokens up to generation MaxIssue, each valid for
\* ExpiresInSec seconds; the token of the credential sources expires at
\* InitialExpiresAt.
TickMs == 1800000
MaxTicks == 2
MaxIssue == 3
ExpiresInSec == 3600
InitialExpiresAt == 2400000

NoExpiry == [at |-> 0, gen |-> 0]

\* A credential record; a field that is 0 (NoExpiry) is a key the record lacks.
NoCreds ==
    [accessToken |-> 0, refreshToken |-> 0, profileArn |-> 0, expiresAt |-> NoExpiry,
     authMethod |-> "", clientId |-> 0, clientSecret |-> 0, region |-> ""]
InitialCreds ==
    [NoCreds EXCEPT !.accessToken = 1, !.refreshToken = 1, !.profileArn = 1,
                    !.expiresAt = [at |-> InitialExpiresAt, gen |-> 1],
                    !.authMethod = "social"]

NoFile == [exists |-> FALSE, data |-> NoCreds]
FileOf(data) == [exists |-> TRUE, data |-> data]

\* Object.assign(target, source) and {...target, ...source}: every key the
\* source has overwrites the target's.
ObjectAssign(target, source) ==
    [k \in DOMAIN target |->
        IF source[k] # NoCreds[k] THEN source[k] ELSE target[k]]

\* a || b on credential values
OrElse(a, b, undefined) == IF a # undefined THEN a ELSE b

\* loadCredentialsFromFile: the parsed file, or null when it cannot be read.
loadCredentialsFromFile(file) == IF file.exists THEN file.data ELSE NoCreds

\* Variant of isExpiryDateNear with a strict comparison.
isExpiryDateNearStrict(exp, t) ==
    IF exp = NoExpiry THEN FALSE
    ELSE exp.at < t + CRON_NEAR_MINUTES * 60 * 1000

\* Variant of isExpiryDateNear with the comparison turned round.
isExpiryDateNearReversed(exp, t) ==
    IF exp = NoExpiry THEN FALSE
    ELSE exp.at >= t + CRON_NEAR_MINUTES * 60 * 1000

\* isExpiryDateNear(): expirationTime <= now + CRON_NEAR_MINUTES minutes; an
\* undefined expiresAt gives an invalid date, whose comparison is false.
isExpiryDateNear(exp, t) ==
    IF exp = NoExpiry THEN FALSE
    ELSE exp.at <= t + CRON_NEAR_MINUTES * 60 * 1000

\* The upstream's answers to one POST: a status, or no response and an error
\* code / message.
Outcome(status, code) == [status |-> status, code |-> code]
NoError == Outcome(0, "")
Outcomes ==
    { Outcome(st, "") : st \in {200, 400, 403, 429, 500} }
    \cup { Outcome(0, c) : c \in {"ECONNRESET", "socket hang up"} }

\* callApi's catch block: error.response?.status === 403 && !isRetry
IsAuthRetry(error, isRetry) == error.status = 403 /\ ~isRetry

\* ... === 429 / 5xx / network error, each with retryCount < maxRetries
isNetworkError(error) ==
    error.code \in {"ECONNRESET", "ETIMEDOUT", "ECONNABORTED",
                    "stream has been aborted", "socket hang up"}

\* Variant of IsBackoffError: every 4xx answer is backed off like a 429.
IsBackoffErrorAny4xx(error) ==
    \/ error.status >= 400
    \/ isNetworkError(error)

IsBackoffError(error) ==
    \/ error.status = 429
    \/ (error.status >= 500 /\ error.status < 600)
    \/ isNetworkError(error)

\* Variant of CanBackoff: one more retry than maxRetries.
CanBackoffOnceMore(error, retryCount) ==
    IsBackoffError(error) /\ retryCount <= REQUEST_MAX_RETRIES

CanBackoff(error, retryCount) ==
    IsBackoffError(error) /\ retryCount < REQUEST_MAX_RETRIES

RECURSIVE Pow2(_)
Pow2(n) == IF n = 0 THEN 1 ELSE 2 * Pow2(n - 1)

\* const delay = baseDelay * Math.pow(2, retryCount)
BackoffDelay(retryCount) == REQUEST_BASE_DELAY * Pow2(retryCount)

\* Variant of RetryCountAfterRefresh: the 403 retry starts the count again.
RetryCountResetAfterRefresh(retryCount) == 0

\* The arguments of the recursive callApi calls:
\*   after a 403 refresh   callApi(method, model, body, true, retryCount)
\*   after a backoff sleep callApi(method, model, body, isRetry, retryCount + 1)
RetryCountAfterRefresh(retryCount) == retryCount

\* Variant of IsRetryAfterBackoff: the backoff retry forgets the 403 retry.
IsRetryForgottenAfterBackoff(isRetry) == FALSE

IsRetryAfterBackoff(isRetry) == isRetry

\* The request's frame locals. status/code: the error of the catch block in the
\* current callApi frame; merged: mergedCredentials; updated: updatedTokenData;
\* existing: existingData; site: the call site initializeAuth returns to
\* ("init": initialize, "near": the near-expiry check, "403": callApi's catch).
NewRequest ==
    [pc |-> "idle", site |-> "", forceRefresh |-> FALSE, isRetry |-> FALSE,
     retryCount |-> 0, token |-> 0, error |-> NoError, thrown |-> "",
     merged |-> NoCreds, updated |-> NoCreds, existing |-> NoCreds]

\* What a request has done so far. posts: upstream POSTs sent; refreshPosts:
\* refresh POSTs sent, callRefreshPosts: those sent from inside callApi;
\* authRetries: times callApi's 403 branch was taken; refreshDone: refresh
\* responses assigned, newToken: the accessToken of the last one; delays: the
\* backoff sleeps; checked: isExpiryDateNear() was evaluated since the last
\* upstream response (or the start), wasNear: the expiry was near then;
\* returned: the ordinal of the POST whose response was returned.
NewObserved ==
    [posts |-> 0, refreshPosts |-> 0, callRefreshPosts |-> 0, authRetries |-> 0,
     refreshDone |-> 0, newToken |-> 0, delays |-> <<>>, checked |-> FALSE,
     wasNear |-> FALSE, returned |-> 0]

With(rec, upd) ==
    [f \in DOMAIN rec |-> IF f \in DOMAIN upd THEN upd[f] ELSE rec[f]]

\* initializeAuth's frame is left: its locals are gone.
LeaveAuth(rec) ==
    With(rec, [site |-> "", forceRefresh |-> FALSE, merged |-> NoCreds,
               updated |-> NoCreds, existing |-> NoCreds])

\* initializeAuth returns: control is back at its call site.
AfterAuthReturn(rec) ==
    CASE rec.site = "init" -> With(LeaveAuth(rec), [pc |-> "init_mac"])
      [] rec.site = "near" -> With(LeaveAuth(rec), [pc |-> "call_dbg"])
      [] rec.site = "403"  ->
            With(LeaveAuth(rec),
                 [pc |-> "call_dbg", isRetry |-> TRUE, error |-> NoError,
                  retryCount |-> RetryCountAfterRefresh(rec.retryCount)])

\* Variant of AfterAuthThrow: callApi's 403 branch swallows the error of the
\* refresh and retries the POST.
AfterAuthThrowSwallowed(rec, what) ==
    IF rec.site = "403"
    THEN With(LeaveAuth(rec), [pc |-> "call_dbg", isRetry |-> TRUE, error |-> NoError])
    ELSE With(LeaveAuth(rec), [pc |-> "failed", thrown |-> what, token |-> 0])

\* initializeAuth throws: none of its three call sites handles the error, and
\* generateContent / generateContentStream throws.
AfterAuthThrow(rec, what) ==
    With(LeaveAuth(rec), [pc |-> "failed", thrown |-> what, token |-> 0])

\* initializeAuth(forceRefresh) up to its first await.
EnterAuth(rec, site, force) ==
    IF accessToken # 0 /\ ~force
    THEN AfterAuthReturn(With(rec, [site |-> site]))
    ELSE With(rec, [pc |-> "auth_read", site |-> site, forceRefresh |-> force,
                    merged |-> IF base64Creds.exists
                               THEN ObjectAssign(NoCreds, base64Creds.data)
                               ELSE NoCreds])

\* this.base64Creds = null, once initializeAuth has passed its early return
Base64After(force) ==
    IF accessToken # 0 /\ ~force THEN base64Creds ELSE NoFile

\* Variant of AssignRefreshed: expiresAt is not assigned in the same step.
AssignRefreshedLate(data, t) ==
    [accessToken |-> data.accessToken, refreshToken |-> data.refreshToken,
     profileArn |-> data.profileArn]

\* The assignments after a successful refresh response (this.accessToken = ...,
\* this.refreshToken = ..., this.profileArn = ..., this.expiresAt =
\* new Date(Date.now() + expiresIn * 1000).toISOString()): the fields assigned,
\* with no await between the four assignments.
AssignRefreshed(data, t) ==
    [accessToken |-> data.accessToken, refreshToken |-> data.refreshToken,
     profileArn |-> data.profileArn,
     expiresAt |-> [at |-> t + data.expiresIn * 1000, gen |-> data.accessToken]]

\* updatedTokenData: accessToken, refreshToken, expiresAt, and profileArn if set
UpdatedTokenData(mem) ==
    [NoCreds EXCEPT !.accessToken = mem.accessToken, !.refreshToken = mem.refreshToken,
                    !.expiresAt = mem.expiresAt, !.profileArn = mem.profileArn]

\* The refresh endpoint's successful answer carrying generation g.
RefreshData(g) ==
    [accessToken |-> g, refreshToken |-> g, profileArn |-> g, expiresIn |-> ExpiresInSec]

\* The successful answers the code may get from the endpoint it posts to. The
\* social endpoint (refreshUrl) answers with accessToken, refreshToken,
\* profileArn and expiresIn. The IdC endpoint (refreshIDCUrl, used whenever
\* authMethod is not social) answers with accessToken and expiresIn, with or
\* without a new refreshToken, and with no profileArn. A field the answer
\* lacks reads as undefined (0).
RefreshResponses(g, method) ==
    IF method = "social"
    THEN { RefreshData(g) }
    ELSE { [RefreshData(g) EXCEPT !.profileArn = 0],
           [RefreshData(g) EXCEPT !.profileArn = 0, !.refreshToken = 0] }

\* The in-memory credential fields, as one record.
Memory ==
    [accessToken |-> accessToken, refreshToken |-> refreshToken,
     profileArn |-> profileArn, expiresAt |-> expiresAt,
     authMethod |-> authMethod, clientId |-> clientId, clientSecret |-> clientSecret,
     region |-> region]

SetMemory(mem) ==
    /\ accessToken' = mem.accessToken
    /\ refreshToken' = mem.refreshToken
    /\ profileArn' = mem.profileArn
    /\ expiresAt' = mem.expiresAt
    /\ authMethod' = mem.authMethod
    /\ clientId' = mem.clientId
    /\ clientSecret' = mem.clientSecret
    /\ region' = mem.region

memVars == <<accessToken, refreshToken, profileArn, expiresAt, authMethod, clientId,
             clientSecret, region>>

\* Variant of RegionOrDefault: no default region.
RegionAsLoaded(loaded) == loaded

\* if (!this.region) this.region = 'us-east-1'
RegionOrDefault(loaded) == IF loaded = "" THEN "us-east-1" ELSE loaded

\* this.x = this.x || mergedCredentials.x for every field, and the default region
ApplyMerged(mem, m) ==
    [accessToken |-> OrElse(mem.accessToken, m.accessToken, 0),
     refreshToken |-> OrElse(mem.refreshToken, m.refreshToken, 0),
     profileArn |-> OrElse(mem.profileArn, m.profileArn, 0),
     expiresAt |-> OrElse(mem.expiresAt, m.expiresAt, NoExpiry),
     authMethod |-> OrElse(mem.authMethod, m.authMethod, ""),
     clientId |-> OrElse(mem.clientId, m.clientId, 0),
     clientSecret |-> OrElse(mem.clientSecret, m.clientSecret, 0),
     region |-> RegionOrDefault(OrElse(mem.region, m.region, ""))]

\* A file of the directory other than the target: a file that does not load is
\* skipped; a loaded one first takes the expiry date merged so far
\* (`credentials.expiresAt = mergedCredentials.expiresAt`), then is assigned over
\* the merged credentials.
MergeSiblingOwnExpiry(merged, file) ==
    IF ~file.exists THEN merged ELSE ObjectAssign(merged, loadCredentialsFromFile(file))

MergeSibling(merged, file) ==
    IF ~file.exists
    THEN merged
    ELSE ObjectAssign(merged,
                      [loadCredentialsFromFile(file) EXCEPT !.expiresAt = merged.expiresAt])

\* The loop over the directory listing.
RECURSIVE MergeSiblings(_, _)
MergeSiblings(merged, files) ==
    IF files = <<>>
    THEN merged
    ELSE MergeSiblings(MergeSibling(merged, Head(files)), Tail(files))

\* The state after construction: nothing initialized, no field set; the
\* credentials are in the primary file (complete, or a refresh token only), in
\* the base64 blob, or nowhere.
Init ==
    /\ BuildIdle
    /\ ShapeIdle
    /\ now = 0
    /\ isInitialized = FALSE
    /\ axiosInstance = FALSE
    /\ accessToken = 0 /\ refreshToken = 0 /\ profileArn = 0 /\ expiresAt = NoExpiry
    /\ authMethod = "" /\ clientId = 0 /\ clientSecret = 0 /\ region = ""
    /\ \/ base64Creds = NoFile
          /\ credFile \in { FileOf(InitialCreds),
                            FileOf([NoCreds EXCEPT !.refreshToken = 1]),
                            NoFile }
       \/ base64Creds = FileOf(InitialCreds) /\ credFile = NoFile
    /\ issued = 1
    /\ req = [r \in Reqs |-> NewRequest]
    /\ obs = [r \in Reqs |-> NewObserved]
    /\ siblings = <<>>

\* generateContent on an adapter that is not initialized:
\* `if (!this.isInitialized) await this.initialize()`, which calls initializeAuth().
GenerateContentInitialize(r) ==
    /\ req[r].pc = "idle"
    /\ ~isInitialized
    /\ req' = [req EXCEPT ![r] = EnterAuth(@, "init", FALSE)]
    /\ base64Creds' = Base64After(FALSE)
    /\ UNCHANGED <<buildVars, shapeVars, now, isInitialized, axiosInstance, memVars, credFile,
                   issued, obs, siblings>>

\* initialize(), after initializeAuth and getMacAddressSha256 have returned:
\* this.axiosInstance = axios.create(...); this.isInitialized = true.
InitializeFinish(r) ==
    /\ req[r].pc = "init_mac"
    /\ axiosInstance' = TRUE
    /\ isInitialized' = TRUE
    /\ req' = [req EXCEPT ![r] = With(@, [pc |-> "near_check"])]
    /\ UNCHANGED <<buildVars, shapeVars, now, base64Creds, memVars, credFile, issued, obs, siblings>>

\* generateContent / generateContentStream on an initialized adapter:
\* `if (this.isExpiryDateNear()) await this.initializeAuth(true)`, then callApi up
\* to its first await.
GenerateContentNearCheck(r) ==
    /\ \/ req[r].pc = "near_check"
       \/ req[r].pc = "idle" /\ isInitialized
    /\ LET near == isExpiryDateNear(expiresAt, now)
       IN  /\ req' = [req EXCEPT ![r] =
                        IF near THEN EnterAuth(@, "near", TRUE)
                        ELSE With(@, [pc |-> "call_dbg"])]
           /\ base64Creds' = IF near THEN Base64After(TRUE) ELSE base64Creds
           /\ obs' = [obs EXCEPT ![r] =
                        With(@, [checked |-> TRUE,
                                 wasNear |-> (expiresAt # NoExpiry /\
                                     expiresAt.at <= now + CRON_NEAR_MINUTES * 60000)])]
    /\ UNCHANGED <<buildVars, shapeVars, now, isInitialized, axiosInstance, memVars, credFile, issued, siblings>>

\* initializeAuth: the target file has been read; Object.assign(mergedCredentials,
\* targetCredentials); then await fs.readdir.
AuthReadTarget(r) ==
    /\ req[r].pc = "auth_read"
    /\ req' = [req EXCEPT ![r] =
                 With(@, [pc |-> "auth_dir",
                          merged |-> ObjectAssign(@.merged,
                                                  loadCredentialsFromFile(credFile))])]
    /\ UNCHANGED <<buildVars, shapeVars, now, isInitialized, axiosInstance, base64Creds, memVars,
                   credFile, issued, obs, siblings>>

\* initializeAuth from the directory listing on: the other *.json files are
\* merged in, then this.x = this.x || mergedCredentials.x for every field, then
\* the refresh decision, up to the refresh POST or the return / throw.
AuthApply(r) ==
    /\ req[r].pc = "auth_dir"
    /\ LET m == MergeSiblings(req[r].merged, siblings)
           mem == ApplyMerged(Memory, m)
           refresh == req[r].forceRefresh
                        \/ (mem.accessToken = 0 /\ mem.refreshToken # 0)
           sends == refresh /\ mem.refreshToken # 0 /\ axiosInstance
       IN  /\ SetMemory(mem)
           /\ req' = [req EXCEPT ![r] =
                  IF refresh
                  THEN IF mem.refreshToken = 0
                       THEN AfterAuthThrow(@, "No refresh token available")
                       ELSE IF ~axiosInstance
                       THEN AfterAuthThrow(@, "Token refresh failed")
                       ELSE With(@, [pc |-> "refresh_wait"])
                  ELSE IF mem.accessToken = 0
                       THEN AfterAuthThrow(@, "No access token available")
                       ELSE AfterAuthReturn(@)]
           /\ obs' = [obs EXCEPT ![r] =
                  IF sends
                  THEN With(@, [refreshPosts |-> @.refreshPosts + 1,
                                callRefreshPosts |-> @.callRefreshPosts +
                                    (IF req[r].site = "403" THEN 1 ELSE 0)])
                  ELSE @]
    /\ UNCHANGED <<buildVars, shapeVars, now, isInitialized, axiosInstance, base64Creds, credFile,
                   issued, siblings>>

\* The refresh POST is answered with an accessToken: the four fields are
\* assigned, updatedTokenData is built, and saveCredentialsToFile starts.
RefreshSucceeds(r) ==
    /\ req[r].pc = "refresh_wait"
    /\ issued < MaxIssue
    /\ issued' = issued + 1
    /\ \E data \in RefreshResponses(issued + 1, authMethod) :
         \E mem \in {With(Memory, AssignRefreshed(data, now))} :
           /\ SetMemory(mem)
           /\ req' = [req EXCEPT ![r] =
                        With(@, [pc |-> "save_read", updated |-> UpdatedTokenData(mem)])]
    /\ obs' = [obs EXCEPT ![r] = With(@, [refreshDone |-> @.refreshDone + 1,
                                          newToken |-> issued + 1])]
    /\ UNCHANGED <<buildVars, shapeVars, now, isInitialized, axiosInstance, base64Creds, credFile, siblings>>

\* The refresh POST fails, or its response holds no accessToken:
\* throw new Error(`Token refresh failed: ...`).
RefreshFails(r) ==
    /\ req[r].pc = "refresh_wait"
    /\ req' = [req EXCEPT ![r] = AfterAuthThrow(@, "Token refresh failed")]
    /\ UNCHANGED <<buildVars, shapeVars, now, isInitialized, axiosInstance, base64Creds, memVars,
                   credFile, issued, obs, siblings>>

\* saveCredentialsToFile: the existing file has been read ({} when missing).
SaveRead(r) ==
    /\ req[r].pc = "save_read"
    /\ req' = [req EXCEPT ![r] =
                 With(@, [pc |-> "save_write",
                          existing |-> loadCredentialsFromFile(credFile)])]
    /\ UNCHANGED <<buildVars, shapeVars, now, isInitialized, axiosInstance, base64Creds, memVars,
                   credFile, issued, obs, siblings>>

\* Variant of MergedData: the new data alone, without the existing file.
MergedDataNewOnly(existingData, newData) == newData

\* const mergedData = { ...existingData, ...newData }
MergedData(existingData, newData) == ObjectAssign(existingData, newData)

\* saveCredentialsToFile: {...existingData, ...newData} is written; initializeAuth
\* checks this.accessToken and returns.
SaveWrite(r) ==
    /\ req[r].pc = "save_write"
    /\ credFile' = FileOf(MergedData(req[r].existing, req[r].updated))
    /\ req' = [req EXCEPT ![r] =
                 IF accessToken = 0
                 THEN AfterAuthThrow(@, "No access token available")
                 ELSE AfterAuthReturn(@)]
    /\ UNCHANGED <<buildVars, shapeVars, now, isInitialized, axiosInstance, base64Creds, memVars,
                   issued, obs, siblings>>

\* Variant of SendPost: a retry re-sends the token of the first attempt.
SendPostCachedToken(rec) ==
    With(rec, [pc |-> "post_wait",
               token |-> IF rec.token # 0 THEN rec.token ELSE accessToken])

\* callApi: `const token = this.accessToken`, the Authorization header, and the
\* POST to the upstream.
SendPost(rec) == With(rec, [pc |-> "post_wait", token |-> accessToken])

CallSend(r) ==
    /\ req[r].pc = "call_dbg"
    /\ req' = [req EXCEPT ![r] = SendPost(@)]
    /\ obs' = [obs EXCEPT ![r] = With(@, [posts |-> @.posts + 1])]
    /\ UNCHANGED <<buildVars, shapeVars, now, isInitialized, axiosInstance, base64Creds, memVars,
                   credFile, issued, siblings>>

\* callApi: the POST is answered. 200: the response is returned, parsed and
\* built into the result. Otherwise the catch block.
CallResponse(r) ==
    /\ req[r].pc = "post_wait"
    /\ \E error \in Outcomes :
          /\ req' = [req EXCEPT ![r] =
                IF error.status = 200 THEN With(@, [pc |-> "done"])
                ELSE IF IsAuthRetry(error, @.isRetry)
                THEN EnterAuth(With(@, [error |-> error]), "403", TRUE)
                ELSE IF CanBackoff(error, @.retryCount)
                THEN With(@, [pc |-> "sleep", error |-> error])
                ELSE With(@, [pc |-> "failed", error |-> error, thrown |-> "upstream",
                              token |-> 0])]
          /\ base64Creds' = IF error.status # 200 /\ IsAuthRetry(error, req[r].isRetry)
                            THEN Base64After(TRUE) ELSE base64Creds
          /\ obs' = [obs EXCEPT ![r] =
                IF error.status = 200
                THEN With(@, [returned |-> @.posts, checked |-> FALSE, wasNear |-> FALSE])
                ELSE IF IsAuthRetry(error, req[r].isRetry)
                THEN With(@, [authRetries |-> @.authRetries + 1, checked |-> FALSE,
                              wasNear |-> FALSE])
                ELSE IF CanBackoff(error, req[r].retryCount)
                THEN With(@, [delays |-> Append(@.delays, BackoffDelay(req[r].retryCount)),
                              checked |-> FALSE, wasNear |-> FALSE])
                ELSE With(@, [checked |-> FALSE, wasNear |-> FALSE])]
    /\ UNCHANGED <<buildVars, shapeVars, now, isInitialized, axiosInstance, memVars, credFile, issued, siblings>>

\* callApi: the backoff sleep is over; callApi(method, model, body, isRetry,
\* retryCount + 1) runs up to its POST.
BackoffRetry(r) ==
    /\ req[r].pc = "sleep"
    /\ req' = [req EXCEPT ![r] =
                 SendPost(With(@, [retryCount |-> @.retryCount + 1, error |-> NoError,
                                   isRetry |-> IsRetryAfterBackoff(@.isRetry)]))]
    /\ obs' = [obs EXCEPT ![r] = With(@, [posts |-> @.posts + 1])]
    /\ UNCHANGED <<buildVars, shapeVars, now, isInitialized, axiosInstance, base64Creds, memVars,
                   credFile, issued, siblings>>

\* The wall clock advances.
Tick ==
    /\ now < MaxTicks * TickMs
    /\ now' = now + TickMs
    /\ UNCHANGED <<buildVars, shapeVars, isInitialized, axiosInstance, base64Creds, memVars,
                   credFile, issued, req, obs, siblings>>

Step(r) ==
    \/ GenerateContentInitialize(r)
    \/ InitializeFinish(r)
    \/ GenerateContentNearCheck(r)
    \/ AuthReadTarget(r)
    \/ AuthApply(r)
    \/ RefreshSucceeds(r)
    \/ RefreshFails(r)
    \/ SaveRead(r)
    \/ SaveWrite(r)
    \/ CallSend(r)
    \/ CallResponse(r)
    \/ BackoffRetry(r)

Next == (\E r \in Reqs : Step(r)) \/ Tick

Spec == Init /\ [][Next]_vars

\* One request alone on the adapter.
Next1 == Step(1) \/ Tick

Spec1 == Init /\ [][Next1]_vars

\* One request alone, every await of which is answered in the end: the file
\* system and the two endpoints answer or fail (axios is created with a
\* timeout), and the timer of a backoff sleep fires.
Spec1Fair == Init /\ [][Next1]_vars /\ WF_vars(Step(1))

(***************************************************************************)
(* generateContentStream: the same call sequence as generateContent, then  *)
(* the pseudo-stream. content and toolCalls are what _processApiResponse   *)
(* makes of the upstream's answer.                                         *)
(***************************************************************************)

\* Variant of CatchYield: the catch block yields the stream of an error text.
CatchYieldErrorStream(errorEvents) == errorEvents

\* generateContentStream's catch block: it throws `Error processing response`
\* and yields nothing (the yield of an error stream is commented out).
CatchYield(errorEvents) == <<>>

\* The text of the commented-out error stream.
ErrorText == <<"E", "r", "r">>

InitStream ==
    /\ ShapeIdle
    /\ content \in Contents
    /\ toolCalls \in SeqsUpTo(ToolCallPool, MaxCalls)
    /\ events = <<>>
    /\ message = NoMessage
    /\ yielded = 0
    /\ raw = <<>>
    /\ parseResult = ""
    /\ now = 0
    /\ isInitialized = FALSE
    /\ axiosInstance = FALSE
    /\ accessToken = 0 /\ refreshToken = 0 /\ profileArn = 0 /\ expiresAt = NoExpiry
    /\ authMethod = "" /\ clientId = 0 /\ clientSecret = 0 /\ region = ""
    /\ base64Creds = NoFile
    /\ credFile \in { FileOf(InitialCreds), NoFile }
    /\ issued = 1
    /\ req = [r \in Reqs |-> NewRequest]
    /\ obs = [r \in Reqs |-> NewObserved]
    /\ siblings = <<>>

\* streamApi has returned the response: _processApiResponse parses it,
\* buildClaudeResponse(responseText, true, ...) builds the whole array, and the
\* first event is yielded; or parsing throws and the catch block runs.
StreamProcess(r) ==
    /\ req[r].pc = "done"
    /\ \/ /\ events' = BuildStreamResponse(content, toolCalls)
          /\ yielded' = 1
          /\ req' = [req EXCEPT ![r] = With(@, [pc |-> "yield"])]
       \/ /\ events' = CatchYield(BuildStreamResponse(ErrorText, <<>>))
          /\ yielded' = Len(events')
          /\ req' = [req EXCEPT ![r] =
                       With(@, [pc |-> "failed", thrown |-> "Error processing response",
                                token |-> 0])]
    /\ UNCHANGED <<content, toolCalls, message, raw, parseResult, shapeVars, now, isInitialized, axiosInstance,
                   base64Creds, memVars, credFile, issued, obs, siblings>>

\* The consumer asks for the next event: `yield chunkJson` of the next loop
\* round, or the end of the generator.
StreamYield(r) ==
    /\ req[r].pc = "yield"
    /\ IF yielded < Len(events)
       THEN yielded' = yielded + 1 /\ req' = req
       ELSE yielded' = yielded /\ req' = [req EXCEPT ![r] = With(@, [pc |-> "finished"])]
    /\ UNCHANGED <<content, toolCalls, events, message, raw, parseResult, shapeVars, now, isInitialized,
                   axiosInstance, base64Creds, memVars, credFile, issued, obs, siblings>>

NextStream == Step(1) \/ Tick \/ StreamProcess(1) \/ StreamYield(1)

\* One streaming request on a fresh adapter.
SpecStream == InitStream /\ [][NextStream]_vars

\* The credential sources a fresh adapter can find. The primary file: a social
\* login, an IdC login with its client registration and region, an IdC login
\* without client registration, tokens with no authMethod, tokens with no
\* expiry date, a refresh token only, or no file. The base64 blob: none, or a social login with a region.
CredFiles ==
    { FileOf(InitialCreds),
      FileOf([InitialCreds EXCEPT !.authMethod = "IdC", !.clientId = 1,
                                   !.clientSecret = 1, !.region = "eu-west-1"]),
      FileOf([InitialCreds EXCEPT !.authMethod = "IdC"]),
      FileOf([InitialCreds EXCEPT !.authMethod = ""]),
      FileOf([InitialCreds EXCEPT !.expiresAt = NoExpiry]),
      FileOf([NoCreds EXCEPT !.refreshToken = 1]),
      NoFile }

Base64Blobs ==
    { NoFile, FileOf([InitialCreds EXCEPT !.region = "ap-south-1"]) }

\* The other *.json files of the directory: a client registration with an
\* expiry date of its own, and a file with a region and an access token. The
\* directory holds none, the first, or an unreadable file and both.
SiblingClient ==
    [NoCreds EXCEPT !.clientId = 2, !.clientSecret = 2, !.expiresAt = [at |-> 1, gen |-> 2]]

SiblingRegion ==
    [NoCreds EXCEPT !.region = "eu-central-1", !.accessToken = 2, !.clientId = 3]

SiblingLists ==
    { <<>>,
      <<FileOf(SiblingClient)>>,
      <<NoFile, FileOf(SiblingClient), FileOf(SiblingRegion)>> }

\* The state after construction, for every combination of credential sources.
InitAuth ==
    /\ BuildIdle
    /\ ShapeIdle
    /\ now = 0
    /\ isInitialized = FALSE
    /\ axiosInstance = FALSE
    /\ accessToken = 0 /\ refreshToken = 0 /\ profileArn = 0 /\ expiresAt = NoExpiry
    /\ authMethod = "" /\ clientId = 0 /\ clientSecret = 0 /\ region = ""
    /\ base64Creds \in Base64Blobs
    /\ credFile \in CredFiles
    /\ issued = 1
    /\ req = [r \in Reqs |-> NewRequest]
    /\ obs = [r \in Reqs |-> NewObserved]
    /\ siblings \in SiblingLists

\* One request on a fresh adapter, over the credential sources.
SpecAuth == InitAuth /\ [][Next1]_vars

(***************************************************************************)
(* C3. Within one callApi invocation with all its recursive retries, a 403 *)
(* triggers the forced refresh and retry at most once: a 403 received      *)
(* after that refresh-and-retry, also with backoff retries in between, is  *)
(* surfaced to the caller with no further refresh and no further POST.     *)
(***************************************************************************)
C3_AuthRetryOnce ==
    \A r \in Reqs :
        /\ obs[r].authRetries <= 1
        /\ obs[r].callRefreshPosts <= 1
        /\ (req[r].isRetry /\ req[r].error.status = 403) =>
              /\ req[r].pc = "failed"
              /\ obs[r].authRetries = 1
              /\ obs[r].posts = 2 + req[r].retryCount

\* A 403 after the refresh-and-retry and at least one backoff retry.
C3_Witness ==
    \E r \in Reqs :
        /\ req[r].pc = "failed" /\ req[r].isRetry
        /\ req[r].error.status = 403 /\ req[r].retryCount >= 1

(***************************************************************************)
(* C4. callApi takes at most maxRetries backoff retries in total for 429,  *)
(* 5xx and network errors, counted by one counter that a 403 refresh-retry *)
(* does not reset; the retry taken when the counter is n sleeps            *)
(* baseDelay * 2^n; when the counter has reached maxRetries the failure is *)
(* surfaced.                                                               *)
(***************************************************************************)
C4_BackoffBudget ==
    \A r \in Reqs :
        LET n == req[r].retryCount
            d == obs[r].delays
            e == req[r].error
            backoffKind ==
                \/ e.status = 429
                \/ e.status \in 500..599
                \/ e.code \in {"ECONNRESET", "ETIMEDOUT", "ECONNABORTED",
                               "stream has been aborted", "socket hang up"}
        IN  /\ Len(d) <= REQUEST_MAX_RETRIES
            /\ Len(d) = n + (IF req[r].pc = "sleep" THEN 1 ELSE 0)
            /\ \A i \in 1..Len(d) : d[i] = REQUEST_BASE_DELAY * (2 ^ (i - 1))
            /\ backoffKind =>
                  \/ req[r].pc = "sleep" /\ n < REQUEST_MAX_RETRIES
                  \/ req[r].pc = "failed" /\ n = REQUEST_MAX_RETRIES

\* The budget is used up across a 403 refresh-retry, and the failure surfaces.
C4_Witness ==
    \E r \in Reqs :
        /\ req[r].pc = "failed" /\ req[r].isRetry
        /\ req[r].retryCount = REQUEST_MAX_RETRIES
        /\ req[r].error.status = 429
        /\ Len(obs[r].delays) = REQUEST_MAX_RETRIES

(***************************************************************************)
(* C5. Before every upstream POST, the retry POSTs inside callApi          *)
(* included, isExpiryNear() is evaluated, and if it returns true a forced  *)
(* refresh completes before that POST.                                     *)
(***************************************************************************)
C5_CheckBeforeEveryPost ==
    \A r \in Reqs :
        req[r].pc = "post_wait" =>
            /\ obs[r].checked
            /\ obs[r].wasNear => obs[r].refreshDone >= 1

(***************************************************************************)
(* C5, amended. Before the first upstream POST of a generateContent /      *)
(* generateContentStream call isExpiryDateNear() is evaluated, and if it   *)
(* returns true a forced refresh completes before that POST; the retry     *)
(* POSTs inside callApi are sent without evaluating it again.              *)
(***************************************************************************)
C5_CheckBeforeFirstPost ==
    \A r \in Reqs :
        req[r].pc = "post_wait" =>
            IF obs[r].posts = 1
            THEN /\ obs[r].checked
                 /\ obs[r].wasNear => obs[r].refreshDone >= 1
            ELSE ~obs[r].checked

\* A first POST in flight after a near-expiry refresh.
C5_Witness ==
    \E r \in Reqs :
        /\ req[r].pc = "post_wait" /\ obs[r].posts = 1
        /\ obs[r].wasNear /\ obs[r].refreshDone = 1

(***************************************************************************)
(* C6. Refreshes are single-flight: at no point are two refresh POSTs in   *)
(* flight at the same time.                                                *)
(***************************************************************************)
C6_SingleFlightRefresh ==
    Cardinality({r \in Reqs : req[r].pc = "refresh_wait"}) <= 1

C9_CurrentMessageFilled ==
    shapeResult = "returned" =>
        /\ request.current.present
        /\ request.current.content # <<>> \/ request.current.toolResults # <<>>

(***************************************************************************)
(* C10. In every shaped request, before size remediation the history has   *)
(* at most KIRO_MAX_HISTORY entries, for every combination of system       *)
(* prompt presence, first-message role and last-message role.              *)
(***************************************************************************)
C10_HistoryWithinCap ==
    shapeResult = "returned" => Len(assembled.history) <= KIRO_MAX_HISTORY

(***************************************************************************)
(* C11. If the last retained message has role assistant, the history of    *)
(* the shaped request ends with an assistantResponseMessage whose content  *)
(* is that message's text (as retained: sanitized and cut to the message   *)
(* length), and currentMessage.userInputMessage.content is "Continue".     *)
(***************************************************************************)
C11_AssistantLast ==
    (shapeResult = "returned" /\ messages[Len(messages)].role = "assistant") =>
        LET pm == ProcessedMessages(messages)
            text == getContentText(pm[Len(pm)])
            before == assembled.history
            after == request.history
        IN  /\ before # <<>>
            /\ before[Len(before)].kind = "assistantResponseMessage"
            /\ before[Len(before)].content = text
            /\ after # <<>>
            /\ after[Len(after)].kind = "assistantResponseMessage"
            /\ request.current.present
            /\ request.current.content = ContinueText

\* initializeAuth has returned without throwing at least once.
AuthSucceeded == isInitialized \/ \E r \in Reqs : req[r].pc = "init_mac"

(***************************************************************************)
(* C12. After successful initialization accessToken and region are both    *)
(* non-empty; when no source supplies a region, region is us-east-1.       *)
(***************************************************************************)
C12_TokenAndRegion ==
    /\ [](AuthSucceeded => accessToken # 0 /\ region # "")
    /\ [][\A r \in Reqs :
            (req[r].pc = "auth_dir" /\ req'[r].pc = "init_mac"
                /\ req[r].merged.region = "" /\ region = ""
                /\ \A i \in DOMAIN siblings : siblings[i].data.region = "")
            => region' = "us-east-1"]_vars

\* Initialization has succeeded with the default region (no source of the
\* model supplies us-east-1).
C12_Witness ==
    \E r \in Reqs : req[r].pc = "init_mac" /\ accessToken # 0 /\ region = "us-east-1"

(***************************************************************************)
(* C13. After successful initialization, if authMethod is not social then  *)
(* clientId and clientSecret are both non-empty.                           *)
(***************************************************************************)
C13_ClientRegistration ==
    (AuthSucceeded /\ authMethod # "social") => clientId # 0 /\ clientSecret # 0

(***************************************************************************)
(* C14. When a refresh attempt fails (the refresh POST errors or its       *)
(* response has no accessToken), initializeAuth throws: the request ends   *)
(* with "Token refresh failed", it sends no further POST to the upstream   *)
(* (in particular none on the 403 path), and the step leaves the in-memory *)
(* accessToken, refreshToken, expiresAt and the primary file unchanged.    *)
(***************************************************************************)
C14_RefreshFailureIsFatal ==
    /\ [][\A r \in Reqs :
            (req[r].pc = "refresh_wait" /\ req'[r].pc # "refresh_wait" /\ issued' = issued)
            => /\ req'[r].pc = "failed"
               /\ req'[r].thrown = "Token refresh failed"
               /\ obs'[r].posts = obs[r].posts
               /\ UNCHANGED <<accessToken, refreshToken, expiresAt, credFile>>]_vars
    /\ [][\A r \in Reqs :
            req[r].thrown = "Token refresh failed"
            => req'[r] = req[r] /\ obs'[r] = obs[r]]_vars

\* A forced refresh on the 403 path has failed: the request has ended after its
\* one POST.
C14_Witness ==
    \E r \in Reqs :
        /\ req[r].pc = "failed" /\ req[r].thrown = "Token refresh failed"
        /\ obs[r].authRetries = 1
        /\ obs[r].posts = 1
        /\ accessToken # 0

(***************************************************************************)
(* C15. An upstream 4xx other than 403 and 429 ends the request at once:   *)
(* the answer makes the call fail with that error, without a refresh POST  *)
(* or a backoff sleep, and the failed request sends nothing afterwards.    *)
(***************************************************************************)
C15_Other4xxSurfaced ==
    /\ [](\A r \in Reqs :
            (req[r].error.status >= 400 /\ req[r].error.status < 500
                /\ req[r].error.status \notin {403, 429})
            => req[r].pc = "failed" /\ req[r].thrown = "upstream")
    /\ [][\A r \in Reqs :
            (req[r].pc = "post_wait" /\ req'[r].error.status = 400)
            => /\ obs'[r].posts = obs[r].posts
               /\ obs'[r].refreshPosts = obs[r].refreshPosts
               /\ obs'[r].delays = obs[r].delays
               /\ UNCHANGED <<memVars, credFile>>]_vars
    /\ [][\A r \in Reqs :
            (req[r].pc = "failed" /\ req[r].error.status = 400)
            => req'[r] = req[r] /\ obs'[r] = obs[r]]_vars

\* A 400 answered a retry after one backoff sleep: the request has failed with
\* two POSTs sent.
C15_Witness ==
    \E r \in Reqs :
        /\ req[r].pc = "failed" /\ req[r].error.status = 400
        /\ obs[r].posts = 2
        /\ Len(obs[r].delays) = 1

(***************************************************************************)
(* C16. generateContentStream yields no event before the upstream call,    *)
(* with all its retries, has returned and the whole response has been      *)
(* parsed and built; a request that fails has yielded no event and has     *)
(* thrown.                                                                 *)
(***************************************************************************)
C16_NoPartialStream ==
    /\ yielded > 0 =>
          \E r \in Reqs :
              /\ req[r].pc \in {"yield", "finished"}
              /\ obs[r].posts > 0
              /\ obs[r].returned = obs[r].posts
              /\ events = BuildStreamResponse(content, toolCalls)
              /\ yielded <= Len(events)
    /\ \A r \in Reqs : req[r].pc = "failed" => yielded = 0 /\ req[r].thrown # ""

\* The whole stream has been yielded after two backoff retries.
C16_Witness ==
    \E r \in Reqs :
        /\ req[r].pc = "finished"
        /\ yielded = Len(events)
        /\ yielded >= 3
        /\ Len(obs[r].delays) = 2

\* The position of a stage in the order of the size enforcement.
StageRank(name) ==
    CASE name = "shift" -> 1 [] name = "shorten" -> 2 [] name = "tools" -> 3
      [] name = "last3" -> 4

\* The request a logged stage started from.
StageInput(i) == IF i = 1 THEN assembled ELSE stages[i - 1].request

\* The last n entries of a history.
LastEntries(h, n) == SubSeq(h, Len(h) - n + 1, Len(h))

\* What the logged stage i did to the request it started from.
StageEffect(i) ==
    LET in == StageInput(i)
        out == stages[i].request
    IN  CASE stages[i].stage = "shift" ->
                /\ Len(out.history) >= HistoryFloor
                /\ Len(out.history) < Len(in.history)
                /\ out = [in EXCEPT !.history = LastEntries(@, Len(out.history))]
                /\ Len(out.history) = HistoryFloor \/ ~TooLarge(out)
                /\ TooLarge([in EXCEPT !.history = LastEntries(@, Len(out.history) + 1)])
          [] stages[i].stage = "shorten" ->
                /\ Len(out.history) = Len(in.history)
                /\ out.current = in.current
                /\ \A k \in 1..Len(in.history) :
                      IF Len(in.history[k].content) > shorterMaxLen
                      THEN out.history[k] =
                              [in.history[k] EXCEPT
                                  !.content = SubSeq(@, 1, shorterMaxLen) \o <<HistoryCut>>]
                      ELSE out.history[k] = in.history[k]
          [] stages[i].stage = "tools" ->
                /\ in.current.tools # <<>>
                /\ out.history = in.history
                /\ out.current.tools = <<>> /\ out.current.toolsNull
                /\ out.current.content = in.current.content
                /\ out.current.toolResults = in.current.toolResults
          [] stages[i].stage = "last3" ->
                /\ Len(in.history) > EmergencyKeep
                /\ out = [in EXCEPT !.history = LastEntries(@, EmergencyKeep)]

(***************************************************************************)
(* C17. The size enforcement runs its stages in the order shift oldest     *)
(* history entries (never below 5), shorten history texts to 2000, set the *)
(* tools to null, keep the last 3 history entries; a stage runs only on a  *)
(* request that is still over KIRO_MAX_REQUEST_SIZE, no applicable stage   *)
(* is passed over, and a request within the budget is returned as          *)
(* assembled.                                                              *)
(***************************************************************************)
C17_StagedRemediation ==
    shapeResult = "returned" =>
        /\ \A i, j \in 1..Len(stages) :
              i < j => StageRank(stages[i].stage) < StageRank(stages[j].stage)
        /\ \A i \in 1..Len(stages) : TooLarge(StageInput(i)) /\ StageEffect(i)
        /\ request = IF stages = <<>> THEN assembled ELSE stages[Len(stages)].request
        /\ ~TooLarge(assembled) => stages = <<>> /\ request = assembled
        /\ TooLarge(assembled) =>
              /\ Len(assembled.history) > HistoryFloor => stages[1].stage = "shift"
              /\ TooLarge(request) =>
                    /\ \E i \in 1..Len(stages) : stages[i].stage = "shorten"
                    /\ HasTools(assembled) =>
                          \E i \in 1..Len(stages) : stages[i].stage = "tools"
                    /\ Len(assembled.history) > EmergencyKeep =>
                          \E i \in 1..Len(stages) : stages[i].stage = "last3"

\* All four stages have run, the first one down to five history entries.
C17_Witness ==
    /\ shapeResult = "returned"
    /\ Len(stages) = 4
    /\ Len(assembled.history) > HistoryFloor + 1
    /\ Len(stages[1].request.history) = HistoryFloor
    /\ stages[2].request # stages[1].request

(***************************************************************************)
(* C18. buildCodewhispererRequest never throws because of the size: it     *)
(* throws only for an empty message list, and a request that is still over *)
(* KIRO_MAX_REQUEST_SIZE after the four stages is returned with at most 3  *)
(* history entries, every history content at most 2000 long plus the       *)
(* truncation marker, and no tool definitions in the current message.      *)
(***************************************************************************)
C18_OversizeReturned ==
    /\ shapeResult = "thrown" => messages = <<>>
    /\ (shapeResult = "returned" /\ TooLarge(request)) =>
          /\ Len(request.history) <= EmergencyKeep
          /\ \A k \in 1..Len(request.history) :
                Len(request.history[k].content) <= shorterMaxLen + Len(<<HistoryCut>>)
          /\ request.current.tools = <<>>

\* A request still over the size after all four stages has been returned.
C18_Witness ==
    /\ shapeResult = "returned"
    /\ TooLarge(request)
    /\ Len(stages) = 4
    /\ Len(request.history) = EmergencyKeep

(***************************************************************************)
(* C19. In every shaped request, also after size remediation, the current  *)
(* userInputMessage has a userInputMessageContext only if the context      *)
(* holds a non-empty toolResults list or a non-empty tools list, and has   *)
(* an images field only if the images list is non-empty.                   *)
(***************************************************************************)
C19_ContextOnlyIfFilled ==
    (shapeResult = "returned" /\ request.current.present) =>
        /\ request.current.hasContext =>
              request.current.toolResults # <<>> \/ request.current.tools # <<>>
        /\ request.current.hasImages => request.current.images # <<>>

(***************************************************************************)
(* C20. When tools are not disabled and no size remediation was needed,    *)
(* every tool of the input list whose name is in the core whitelist is     *)
(* among the tools of the shaped request, whatever its position and the    *)
(* number of non-core tools before it.                                     *)
(***************************************************************************)
C20_CoreToolsKept ==
    (shapeResult = "returned" /\ ~disableTools /\ stages = <<>>) =>
        \A i \in 1..Len(tools) :
            tools[i].name \in coreTools =>
                \E j \in 1..Len(request.current.tools) :
                    request.current.tools[j].name = tools[i].name

(***************************************************************************)
(* C21. In every shaped request there are at most KIRO_MAX_TOOLS tool      *)
(* definitions, every tool description is at most 300 long, no non-core    *)
(* tool whose original description was longer than 1000 is present, and    *)
(* with KIRO_DISABLE_TOOLS no tool definition is present.                  *)
(***************************************************************************)
C21_ToolLimits ==
    shapeResult = "returned" =>
        LET shaped == request.current.tools
        IN  /\ Len(shaped) <= KIRO_MAX_TOOLS
            /\ \A j \in 1..Len(shaped) : shaped[j].description <= ToolDescKeep
            /\ \A i \in 1..Len(tools) :
                  (tools[i].name \notin coreTools /\ tools[i].description > ToolDescSkip)
                  => \A j \in 1..Len(shaped) : shaped[j].name # tools[i].name
            /\ disableTools => shaped = <<>>

\* More tools passed the filter than the cap allows, and a description was cut.
C21_Witness ==
    /\ shapeResult = "returned"
    /\ Len(tools) > KIRO_MAX_TOOLS
    /\ Len(request.current.tools) = KIRO_MAX_TOOLS
    /\ \E j \in 1..Len(request.current.tools) :
          request.current.tools[j].description = ToolDescKeep

(***************************************************************************)
(* C22. In every shaped request the history alternates userInputMessage    *)
(* and assistantResponseMessage records: no two adjacent history entries   *)
(* are of the same kind, for every sequence of ingress message roles.      *)
(***************************************************************************)
C22_HistoryAlternates ==
    shapeResult = "returned" =>
        \A k \in 1..(Len(request.history) - 1) :
            request.history[k].kind # request.history[k + 1].kind

\* The text holds the opening tag (its two halves next to each other).
HasReminderOpen(t) == FirstOpen(t, 1) # 0

\* The text holds the interruption marker.
HasInterrupted(t) == \E i \in 1..Len(t) : t[i] = Interrupted

(***************************************************************************)
(* C26. For any text, the text sanitized once holds neither the opening    *)
(* tag <system-reminder> nor the marker [Request interrupted by user].     *)
(***************************************************************************)
C26_SanitizedIsClean ==
    sanitized # <<>> => ~HasReminderOpen(sanitized[1]) /\ ~HasInterrupted(sanitized[1])

(***************************************************************************)
(* C27. Sanitizing is idempotent: cleanSystemTags(cleanSystemTags(t)) =    *)
(* cleanSystemTags(t) for every text t.                                    *)
(***************************************************************************)
C27_SanitizeIdempotent ==
    Len(sanitized) = 2 => sanitized[2] = sanitized[1]

(***************************************************************************)
(* C28. Merge priority of initializeAuth. A key in both the base64 blob and *)
(* the primary file has the primary file's value in the merged credentials *)
(* (the step that reads the primary file: before it the merged credentials *)
(* are the blob's). A key other than expiresAt in a sibling *.json file    *)
(* overrides the blob's and the primary's value, the last sibling holding  *)
(* it winning; a key no sibling holds keeps the merged value; expiresAt is *)
(* never a sibling's value (the step from the directory listing on: on a   *)
(* fresh adapter the fields take the merged values, the region its         *)
(* default when it is still empty).                                        *)
(***************************************************************************)
HoldersOf(k) ==
    {i \in DOMAIN siblings : siblings[i].exists /\ siblings[i].data[k] # NoCreds[k]}

LastHolder(k) == CHOOSE i \in HoldersOf(k) : \A j \in HoldersOf(k) : j <= i

C28_MergePriority ==
    /\ [][\A r \in Reqs :
            (req[r].pc = "auth_read" /\ req'[r].pc = "auth_dir") =>
                \A k \in DOMAIN NoCreds :
                    req'[r].merged[k] =
                        IF credFile.exists /\ credFile.data[k] # NoCreds[k]
                        THEN credFile.data[k]
                        ELSE req[r].merged[k]]_vars
    /\ [][\A r \in Reqs :
            (req[r].pc = "auth_dir" /\ req'[r].pc # "auth_dir" /\ Memory = NoCreds) =>
                /\ Memory'.expiresAt = req[r].merged.expiresAt
                /\ \A k \in DOMAIN NoCreds \ {"expiresAt"} :
                       LET v == IF HoldersOf(k) # {}
                                THEN siblings[LastHolder(k)].data[k]
                                ELSE req[r].merged[k]
                       IN  Memory'[k] = IF k = "region" /\ v = "" THEN "us-east-1" ELSE v]_vars

\* The adapter has initialized from a blob, a primary file and sibling files
\* that disagree: the region is the primary's (not the blob's ap-south-1), the
\* client registration is the sibling's (not the primary's), the expiry date
\* is the primary's (not the sibling's).
C28_Witness ==
    \E r \in Reqs :
        /\ req[r].pc = "init_mac"
        /\ siblings = <<FileOf(SiblingClient)>>
        /\ credFile.exists /\ credFile.data.clientId = 1 /\ credFile.data.region = "eu-west-1"
        /\ region = "eu-west-1"
        /\ clientId = 2 /\ clientSecret = 2
        /\ expiresAt = [at |-> InitialExpiresAt, gen |-> 1]

C29_WitnessUnparsed ==
    \E r \in Reqs : req[r].pc = "call_dbg" /\ obs[r].checked /\ expiresAt = NoExpiry

(***************************************************************************)
(* C25. For a sequence of structured tool-use events that share one        *)
(* toolUseId, the first carrying the name and the later ones only the      *)
(* toolUseId with an input chunk or stop: true, the parser emits exactly   *)
(* one tool call, whose arguments are the input chunks concatenated in     *)
(* order (re-serialised when they are JSON).                               *)
(***************************************************************************)
IsSplitToolUse(rawData) ==
    /\ Len(rawData) >= 2
    /\ \A i \in 1..Len(rawData) :
          rawData[i].kind = "event" /\ rawData[i].content = <<>>
    /\ rawData[1].name # "" /\ rawData[1].toolUseId # "" /\ ~rawData[1].stop
    /\ \A i \in 2..Len(rawData) :
          /\ rawData[i].name = ""
          /\ rawData[i].toolUseId = rawData[1].toolUseId
          /\ rawData[i].input # <<>> \/ rawData[i].stop

InputChunks(rawData) == Flatten([i \in 1..Len(rawData) |-> rawData[i].input])

C25_SplitToolUse ==
    (parseResult = "returned" /\ IsSplitToolUse(raw)) =>
        /\ Len(toolCalls) = 1
        /\ toolCalls[1].name = raw[1].name
        /\ toolCalls[1].arguments \in {InputChunks(raw), JsonReserialize(InputChunks(raw))}

(***************************************************************************)
(* C30. A tool call whose argument text is not valid JSON never aborts the *)
(* processing: parsing and building complete, the call is emitted, and its *)
(* raw argument text stands under raw_arguments in the input of the        *)
(* emitted tool_use (the block of the message, the input_json_delta of the *)
(* stream).                                                                *)
(***************************************************************************)
\* The object { raw_arguments: arguments } as JSON text.
RawArgumentsObject(arguments) ==
    <<"{", "\"", "raw_arguments", "\"", ":">> \o JsonStringify(arguments) \o <<"}">>

C30_RawArgumentsKept ==
    \A i \in 1..Len(toolCalls) :
        ~JsonParses(toolCalls[i].arguments) =>
            /\ message # NoMessage =>
                  /\ Len(message.content) >= i
                  /\ message.content[i].type = "tool_use"
                  /\ message.content[i].id = toolCalls[i].id
                  /\ message.content[i].text = RawArgumentsObject(toolCalls[i].arguments)
            /\ events # <<>> =>
                  \E e \in 1..Len(events) :
                      /\ events[e].type = "content_block_delta"
                      /\ events[e].index = i - 1
                      /\ events[e].text = RawArgumentsObject(toolCalls[i].arguments)

(***************************************************************************)
(* C24. The tool calls returned by _processApiResponse are the calls       *)
(* collected (structured, bracket calls of the text, bracket calls of the  *)
(* raw buffer, in that order) without every call whose (name, arguments)   *)
(* pair equals that of an earlier call: first occurrences in their order,  *)
(* no two calls with equal pairs, no call dropped whose pair differs from  *)
(* all earlier ones; deduplicating the result again changes nothing.       *)
(***************************************************************************)
PairOf(tc) == <<tc.name, tc.arguments>>

FirstOccurrences(calls) ==
    Flatten([i \in 1..Len(calls) |->
               IF \A j \in 1..(i - 1) : PairOf(calls[j]) # PairOf(calls[i])
               THEN <<calls[i]>>
               ELSE <<>>])

StructuredCalls(rawData) == EventLoop(rawData, <<>>, <<>>, NoCall).toolCalls

TextBracketCalls(rawData) ==
    parseBracketToolCalls(EventLoop(rawData, <<>>, <<>>, NoCall).fullContent, 0)

RawBracketCalls(rawData) ==
    parseBracketToolCalls(RawResponseText(rawData), Len(TextBracketCalls(rawData)))

CollectedCalls(rawData) ==
    StructuredCalls(rawData) \o TextBracketCalls(rawData) \o RawBracketCalls(rawData)

C24_DedupByPair ==
    parseResult = "returned" =>
        /\ toolCalls = FirstOccurrences(CollectedCalls(raw))
        /\ \A a, b \in 1..Len(toolCalls) :
              a # b => PairOf(toolCalls[a]) # PairOf(toolCalls[b])
        /\ deduplicateToolCalls(toolCalls) = toolCalls

(***************************************************************************)
(* C23. After _processApiResponse the response text holds no substring of  *)
(* the bracket tool-call grammar: no "[Called", a name, "with args:" and   *)
(* an opening brace whose matching closing bracket follows a closing       *)
(* brace.                                                                  *)
(***************************************************************************)
BracketCallAt(text, i) ==
    LET n == SkipBlanks(text, i + 1)
        m == SkipBlanks(text, n + 1)
        b == SkipBlanks(text, m + 1)
        e == findMatchingBracket(text, i)
    IN  /\ text[i] = "[Called"
        /\ n > i + 1 /\ n <= Len(text) /\ text[n] \in Words
        /\ m > n + 1 /\ m <= Len(text) /\ text[m] = "with args:"
        /\ e # 0 /\ b < e /\ text[b] = "{" /\ text[e - 1] = "}"

C23_NoBracketCallLeft ==
    parseResult = "returned" =>
        \A i \in 1..Len(content) : ~BracketCallAt(content, i)

(***************************************************************************)
(* C37. For the same parsed response the message and the pseudo-stream's   *)
(* message_delta report the same stop_reason, tool_use iff there are tool  *)
(* calls and end_turn otherwise, and the same output_tokens, the ceiling   *)
(* of a quarter of the total length of the text and the argument strings.  *)
(***************************************************************************)
StreamDelta == events[Len(events) - 1]

TotalLength(c, calls) == Len(c) + SeqSum([i \in 1..Len(calls) |-> Len(calls[i].arguments)])

C37_SameStopAndUsage ==
    (events # <<>> /\ message # NoMessage) =>
        /\ StreamDelta.type = "message_delta"
        /\ StreamDelta.stop_reason = message.stop_reason
        /\ message.stop_reason = (IF toolCalls # <<>> THEN "tool_use" ELSE "end_turn")
        /\ StreamDelta.output_tokens = message.output_tokens
        /\ message.output_tokens = (TotalLength(content, toolCalls) + 3) \div 4

(***************************************************************************)
(* C40. Every pseudo-stream is well formed: message_start first and        *)
(* message_stop last, one message_delta, just before message_stop; every   *)
(* content_block_start is followed at once by one content_block_delta and  *)
(* one content_block_stop of its index, and no delta or stop stands        *)
(* elsewhere; the indices of the n blocks are exactly 0..n-1, each used by *)
(* one block.                                                              *)
(***************************************************************************)
EventsOfType(type) == {i \in 1..Len(events) : events[i].type = type}

BlockIndices == {events[i].index : i \in EventsOfType("content_block_start")}

C40_StreamWellFormed ==
    events # <<>> =>
        /\ EventsOfType("message_start") = {1}
        /\ EventsOfType("message_stop") = {Len(events)}
        /\ EventsOfType("message_delta") = {Len(events) - 1}
        /\ \A i \in EventsOfType("content_block_start") :
              /\ i + 2 <= Len(events)
              /\ events[i + 1].type = "content_block_delta"
              /\ events[i + 2].type = "content_block_stop"
              /\ events[i + 1].index = events[i].index
              /\ events[i + 2].index = events[i].index
        /\ \A i \in EventsOfType("content_block_delta") :
              i - 1 \in EventsOfType("content_block_start")
        /\ \A i \in EventsOfType("content_block_stop") :
              i - 2 \in EventsOfType("content_block_start")
        /\ BlockIndices = 0..(Cardinality(EventsOfType("content_block_start")) - 1)

C40_Witness ==
    /\ Len(events) = 3 + 3 * 3
    /\ content # <<>> /\ Len(toolCalls) = 2
    /\ events[2].type = "content_block_start" /\ events[2].index = 2

(***************************************************************************)
(* C33. Tool-use builders are keyed by toolUseId: for a buffer whose       *)
(* tool-use events all carry their name and in which no toolUseId comes    *)
(* back after its stop, also when the events of two ids are interleaved or *)
(* a second tool use begins before the first has stopped, the event loop   *)
(* emits one call per distinct toolUseId, with the name of that id's first *)
(* event and the arguments made of that id's inputs only.                  *)
(***************************************************************************)
ToolUseIds(rawData) ==
    {rawData[i].toolUseId : i \in {j \in 1..Len(rawData) : rawData[j].toolUseId # ""}}

EventsOf(rawData, id) == {i \in 1..Len(rawData) : rawData[i].toolUseId = id}

InputsOf(rawData, id) ==
    Flatten([i \in 1..Len(rawData) |->
               IF rawData[i].toolUseId = id THEN rawData[i].input ELSE <<>>])

ArgumentsOf(rawData, id) ==
    IF (\E i \in EventsOf(rawData, id) : rawData[i].stop) /\ JsonParses(InputsOf(rawData, id))
    THEN JsonReserialize(InputsOf(rawData, id))
    ELSE InputsOf(rawData, id)

NameOf(rawData, id) ==
    rawData[CHOOSE i \in EventsOf(rawData, id) : \A j \in EventsOf(rawData, id) : i <= j].name

EveryUseNamedAndStoppedOnce(rawData) ==
    /\ \A i \in 1..Len(rawData) : rawData[i].toolUseId # "" => rawData[i].name # ""
    /\ \A i, j \in 1..Len(rawData) :
          (i < j /\ rawData[i].toolUseId # "" /\ rawData[i].toolUseId = rawData[j].toolUseId)
              => ~rawData[i].stop

C33_KeyedByToolUseId ==
    (parseResult = "returned" /\ EveryUseNamedAndStoppedOnce(raw)) =>
        \A id \in ToolUseIds(raw) :
            /\ Cardinality({k \in 1..Len(StructuredCalls(raw)) :
                               StructuredCalls(raw)[k].id = id}) = 1
            /\ \E k \in 1..Len(StructuredCalls(raw)) :
                  /\ StructuredCalls(raw)[k].id = id
                  /\ StructuredCalls(raw)[k].name = NameOf(raw, id)
                  /\ StructuredCalls(raw)[k].arguments = ArgumentsOf(raw, id)

(***************************************************************************)
(* C34. When a system prompt exists and the first retained message has     *)
(* role user, the first history entry's content is the system text, two    *)
(* line breaks and that message's text, and the first message is           *)
(* represented nowhere else: the history holds no further entry for it     *)
(* (one entry per later user or assistant message), and when it is the     *)
(* only retained message the current message is not made from it.          *)
(***************************************************************************)
Retained == ProcessedMessages(messages)

LaterEntries(pm) ==
    Cardinality({i \in 2..Len(pm) :
                    \/ i < Len(pm) /\ pm[i].role \in {"user", "assistant"}
                    \/ i = Len(pm) /\ pm[i].role = "assistant"})

MadeFrom(current, msg) ==
    \/ CurrentContent(msg) # <<>> /\ current.content = CurrentContent(msg)
    \/ CurrentToolResults(msg) # <<>> /\ current.toolResults = CurrentToolResults(msg)
    \/ CurrentImages(msg) # <<>> /\ current.images = CurrentImages(msg)

SystemPromptOnUser ==
    /\ shapeResult = "returned"
    /\ inSystemPrompt # <<>>
    /\ Retained[1].role = "user"

C34_SystemPromptPlacement ==
    SystemPromptOnUser =>
        /\ assembled.history # <<>>
        /\ assembled.history[1].content =
              inSystemPrompt \o <<"\n", "\n">> \o getContentText(Retained[1])
        /\ Len(assembled.history) = 1 + LaterEntries(Retained)
        /\ Len(Retained) = 1 => ~MadeFrom(assembled.current, Retained[1])

(***************************************************************************)
(* C35. After shaping and before size enforcement, the content of every    *)
(* history entry and of the current message is no longer than              *)
(* KIRO_MAX_MESSAGE_LENGTH plus the length of the truncation marker.       *)
(***************************************************************************)
ContentCap == KIRO_MAX_MESSAGE_LENGTH + Len(<<ContentCut>>)

C35_ContentWithinCap ==
    shapeResult = "returned" =>
        /\ \A i \in 1..Len(assembled.history) : Len(assembled.history[i].content) <= ContentCap
        /\ assembled.current.present => Len(assembled.current.content) <= ContentCap

(***************************************************************************)
(* C31. initialize() on a fresh adapter whose merged credential sources    *)
(* hold a refreshToken and no accessToken issues a refresh request: the    *)
(* step of initializeAuth that applies the merged credentials, called from *)
(* initialize and leaving accessToken unset and refreshToken set, sends    *)
(* the refresh POST and waits for its answer.                              *)
(***************************************************************************)
C31_InitializeRefreshes ==
    [][\A r \in Reqs :
          (/\ req[r].pc = "auth_dir" /\ req[r].site = "init"
           /\ req'[r].pc # "auth_dir"
           /\ accessToken' = 0 /\ refreshToken' # 0)
          => (/\ req'[r].pc = "refresh_wait"
              /\ obs'[r].refreshPosts = obs[r].refreshPosts + 1)]_vars

(***************************************************************************)
(* C32. callApi always terminates: whatever the upstream answers, one      *)
(* invocation sends at most maxRetries + 2 POSTs to the chat endpoint (one *)
(* initial, at most maxRetries backoff retries, at most one 403 retry),    *)
(* and once entered it returns a response or throws.                       *)
(***************************************************************************)
Terminated(r) == req[r].pc \in {"done", "failed"}

C32_CallApiTerminates ==
    /\ [](obs[1].posts <= REQUEST_MAX_RETRIES + 2)
    /\ (req[1].pc = "call_dbg" /\ obs[1].posts = 0) ~> Terminated(1)
    /\ <>Terminated(1)

C32_Witness ==
    /\ Terminated(1)
    /\ obs[1].posts = REQUEST_MAX_RETRIES + 2
    /\ obs[1].authRetries = 1
    /\ Len(obs[1].delays) = REQUEST_MAX_RETRIES

(***************************************************************************)
(* C36. A successful refresh changes the primary credential file only, by  *)
(* read-merge-write: the file written is its previous contents (empty if   *)
(* missing) overlaid with the accessToken, refreshToken and expiresAt of   *)
(* the refresh and, when present, its profileArn (a key the refresh did    *)
(* not give is not written); every other key keeps its previous value; no  *)
(* sibling file is written, and the file changes in no other step.         *)
(***************************************************************************)
RefreshedKeys == {"accessToken", "refreshToken", "expiresAt"}

Overlaid(previous, updated) ==
    [k \in DOMAIN NoCreds |->
        IF k \in RefreshedKeys \cup {"profileArn"} /\ updated[k] # NoCreds[k]
        THEN updated[k]
        ELSE previous[k]]

RefreshAssigned(r) == req[r].pc = "refresh_wait" /\ req'[r].pc = "save_read"

C39_RefreshTokenKept ==
    [][\A r \in Reqs :
          (RefreshAssigned(r) /\ refreshToken # 0 /\ accessToken' # 0)
              => refreshToken' # 0]_vars

(***************************************************************************)
(* C38. Once every refresh has completed, its file write done, the         *)
(* accessToken, refreshToken and expiresAt stored in the primary           *)
(* credential file equal those the adapter holds in memory, for refreshes  *)
(* made one after the other and for refreshes of concurrent requests.      *)
(***************************************************************************)
InRefresh(r) == req[r].pc \in {"refresh_wait", "save_read", "save_write"}

RefreshesCompleted ==
    /\ \E r \in Reqs : obs[r].refreshDone > 0
    /\ \A r \in Reqs : ~InRefresh(r)

C38_FileMatchesMemory ==
    RefreshesCompleted =>
        /\ credFile.exists
        /\ credFile.data.accessToken = accessToken
        /\ credFile.data.refreshToken = refreshToken
        /\ credFile.data.expiresAt = expiresAt

(***************************************************************************)
(* Reading the two forms back.                                             *)
(***************************************************************************)
\* The stream's text: the concatenation of its text_delta texts, in order.
StreamText(evs) ==
    Flatten([i \in 1..Len(evs) |->
               IF evs[i].type = "content_block_delta" /\ evs[i].block = "text_delta"
               THEN evs[i].text ELSE <<>>])

\* The stream's tool_use blocks {id, name, arguments}, in event order: each
\* tool_use content_block_start with the input_json_delta of its index.
StreamToolUses(evs) ==
    LET argsOf(ix) ==
            Flatten([j \in 1..Len(evs) |->
                       IF evs[j].type = "content_block_delta"
                          /\ evs[j].block = "input_json_delta" /\ evs[j].index = ix
                       THEN evs[j].text ELSE <<>>])
    IN  Flatten([i \in 1..Len(evs) |->
                   IF evs[i].type = "content_block_start" /\ evs[i].block = "tool_use"
                   THEN << [id |-> evs[i].id, name |-> evs[i].name,
                            arguments |-> argsOf(evs[i].index)] >>
                   ELSE <<>>])

\* The non-streaming message's text: its text blocks' texts, in order.
MessageText(msg) ==
    Flatten([i \in 1..Len(msg.content) |->
               IF msg.content[i].type = "text" THEN msg.content[i].text ELSE <<>>])

\* The non-streaming message's tool_use blocks {id, name, arguments}.
MessageToolUses(msg) ==
    Flatten([i \in 1..Len(msg.content) |->
               IF msg.content[i].type = "tool_use"
               THEN << [id |-> msg.content[i].id, name |-> msg.content[i].name,
                        arguments |-> msg.content[i].text] >>
               ELSE <<>>])

(***************************************************************************)
(* C1. The pseudo-stream is, in this order: message_start; for each tool   *)
(* call i = 0..k-1 the triple content_block_start(tool_use, i),            *)
(* content_block_delta(input_json_delta, i), content_block_stop(i); then,  *)
(* only if the text is non-empty, the text triple at index k; then         *)
(* message_delta; then message_stop. No text block event precedes a        *)
(* tool_use block event.                                                   *)
(***************************************************************************)
C1_StreamOrder ==
    events # <<>> =>
        /\ Len(events) = 3 + 3 * Len(toolCalls) + (IF content = <<>> THEN 0 ELSE 3)
        /\ events[1].type = "message_start"
        /\ SubSeq(events, 2, Len(events) - 2)
              = ToolEvents(toolCalls) \o TextBlockEvents(content, toolCalls)
        /\ events[Len(events) - 1].type = "message_delta"
        /\ events[Len(events)].type = "message_stop"
        /\ \A i, j \in 1..Len(events) :
              (events[i].block \in {"text", "text_delta"}
               /\ events[j].block \in {"tool_use", "input_json_delta"}) => j < i

(***************************************************************************)
(* C2. The non-streaming message and the pseudo-stream built from the same *)
(* parsed response carry the same content: the same text, and the same     *)
(* list of tool_use blocks (ids, names, arguments, order).                 *)
(***************************************************************************)
C2_SameContent ==
    (events # <<>> /\ message # NoMessage) =>
        /\ MessageText(message) = StreamText(events)
        /\ MessageToolUses(message) = StreamToolUses(events)

====
